---- MODULE Spec2Model ----
(***************************************************************************)
(* Configuration subsystem of the "read on external site" extension:       *)
(* the default registry, the StorageManager adapter over                   *)
(* browser.storage.sync and the ConfigManager operations on sites and      *)
(* shortcuts.                                                              *)
(*                                                                         *)
(* Encoding of JavaScript values.                                          *)
(*   object        a record; an optional property is a field that may be   *)
(*                 missing from the record's domain                        *)
(*   name, icon    a sequence of one-character strings                     *)
(*   urlTemplate   a sequence of tokens: a scheme ("https://"), literal    *)
(*                 non-empty text, or a placeholder ("{REPO_PATH}")        *)
(*   site id       <<literal>> for a built-in, <<"custom", slug, ms>> for  *)
(*                 `custom-${slug}-${Date.now()}`                          *)
(*   chord string  the sequence of its '+'-separated pieces with the "+"   *)
(*                 separators kept as elements                             *)
(***************************************************************************)
EXTENDS Integers, Sequences, FiniteSets, TLC

VARIABLES
    store,    \* value under STORAGE_KEYS.CONFIG in browser.storage.sync
    now,      \* Date.now(), in milliseconds
    call,     \* the last call made: its operation, arguments and store faults
    result,   \* how that call ended: "ok" or the error thrown, and its value
    before,   \* the stored value when that call started
    pages     \* per open page: the manager call it is in the middle of

vars == <<store, now, call, result, before, pages>>

(***************************************************************************)
(* Bounds of the model.                                                    *)
(***************************************************************************)
MaxNow == 2          \* the clock runs over 1..MaxNow
MaxCustom == 1       \* addSite is not called on more custom sites (Spec)
MaxNowLimit == 22    \* the clock of SpecLimit

(***************************************************************************)
(* Generic helpers for objects and arrays.                                 *)
(***************************************************************************)
\* { ...a, ...b }
Merge(a, b) ==
    [k \in DOMAIN a \cup DOMAIN b |-> IF k \in DOMAIN b THEN b[k] ELSE a[k]]

\* the object without property f (a property set to undefined is not stored)
Without(a, f) == [k \in DOMAIN a \ {f} |-> a[k]]

Has(a, f) == f \in DOMAIN a

Range(s) == {s[i] : i \in 1..Len(s)}

\* array.filter(keep), keep given as the set of kept indices
RECURSIVE FilterIdx(_, _, _)
FilterIdx(s, keep, i) ==
    IF i > Len(s) THEN <<>>
    ELSE (IF i \in keep THEN <<s[i]>> ELSE <<>>) \o FilterIdx(s, keep, i + 1)

SetMax(S) == CHOOSE m \in S : \A n \in S : n <= m

(***************************************************************************)
(* Text: names and icons are sequences of characters.                      *)
(***************************************************************************)
UpperCase == <<"A","B","C","D","E","F","G","H","I","J","K","L","M",
               "N","O","P","Q","R","S","T","U","V","W","X","Y","Z">>
LowerCase == <<"a","b","c","d","e","f","g","h","i","j","k","l","m",
               "n","o","p","q","r","s","t","u","v","w","x","y","z">>
Digits == {"0","1","2","3","4","5","6","7","8","9"}
WhiteSpace == {" "}

\* String.prototype.toLowerCase, one character
ToLowerChar(c) ==
    IF \E i \in 1..26 : UpperCase[i] = c
    THEN LowerCase[CHOOSE i \in 1..26 : UpperCase[i] = c]
    ELSE c

toLowerCase(s) == [i \in 1..Len(s) |-> ToLowerChar(s[i])]

RECURSIVE TrimStart(_)
TrimStart(s) ==
    IF s # <<>> /\ Head(s) \in WhiteSpace THEN TrimStart(Tail(s)) ELSE s

RECURSIVE TrimEnd(_)
TrimEnd(s) ==
    IF s # <<>> /\ s[Len(s)] \in WhiteSpace
    THEN TrimEnd(SubSeq(s, 1, Len(s) - 1)) ELSE s

\* String.prototype.trim
trim(s) == TrimEnd(TrimStart(s))

(***************************************************************************)
(* Default registry.                                                       *)
(***************************************************************************)
CTRL_SHIFT == <<"ctrl", "shift">>

DefaultSite(id, name, descr, cat, tpl, icon, ord, key) ==
    [id |-> <<id>>, name |-> name, description |-> descr, category |-> cat,
     urlTemplate |-> tpl, icon |-> icon, enabled |-> TRUE, order |-> ord,
     isBuiltIn |-> TRUE,
     shortcuts |-> [key |-> key, modifiers |-> CTRL_SHIFT, enabled |-> TRUE]]

IconGithub == <<"g","i","t","h","u","b">>
IconSearch == <<"s","e","a","r","c","h">>
IconExternalLink == <<"e","x","t","e","r","n","a","l","-","l","i","n","k">>
IconFileText == <<"f","i","l","e","-","t","e","x","t">>

DEFAULT_SITES == <<
    DefaultSite("github1s", <<"G","i","t","H","u","b","1","s">>,
                "sites.descriptions.github1s", "source",
                <<"https://", "github1s.com/", "{REPO_PATH}">>, IconGithub, 1, "1"),
    DefaultSite("github_dev", <<"G","i","t","H","u","b",".","d","e","v">>,
                "sites.descriptions.github_dev", "source",
                <<"https://", "github.dev/", "{REPO_PATH}", "/">>, IconGithub, 2, "2"),
    DefaultSite("sourcegraph", <<"S","o","u","r","c","e","g","r","a","p","h">>,
                "sites.descriptions.sourcegraph", "source",
                <<"https://", "sourcegraph.com/github.com/", "{REPO_PATH}">>,
                IconSearch, 3, "3"),
    DefaultSite("zread", <<"Z","R","e","a","d">>,
                "sites.descriptions.zread", "ai",
                <<"https://", "zread.ai/", "{REPO_PATH}">>, IconExternalLink, 4, "4"),
    DefaultSite("deepwiki", <<"D","e","e","p","W","i","k","i">>,
                "sites.descriptions.deepwiki", "ai",
                <<"https://", "deepwiki.com/", "{REPO_PATH}">>, IconFileText, 5, "5") >>

DEFAULT_SETTINGS ==
    [defaultSiteId |-> <<"github_dev">>, openInNewTab |-> TRUE,
     showOnHover |-> FALSE, enableShortcuts |-> TRUE]

DEFAULT_VERSION == "1.0.0"

DEFAULT_CONFIG ==
    [sites |-> DEFAULT_SITES, settings |-> DEFAULT_SETTINGS, version |-> DEFAULT_VERSION]

MAX_CUSTOM_SITES == 20

\* URL_TEMPLATE_REGEX.test(tpl) for /^https?:\/\/.+\{repoPath\}.*/ : the scheme,
\* at least one character, then the text "{repoPath}"
URL_TEMPLATE_REGEX(tpl) ==
    /\ Len(tpl) >= 3
    /\ tpl[1] \in {"http://", "https://"}
    /\ \E i \in 3..Len(tpl) : tpl[i] = "{repoPath}"

\* the value of the storage key when nothing was ever stored
NoDocument == [undefined |-> TRUE]

(***************************************************************************)
(* StorageManager.                                                         *)
(***************************************************************************)
\* JSON.parse(JSON.stringify(DEFAULT_CONFIG))
getDefaultConfig == DEFAULT_CONFIG

isValidConfig(config) == Has(config, "sites") /\ Has(config, "settings")

MigrateSite(site) ==
    IF Has(site, "shortcuts")
    THEN [site EXCEPT !.shortcuts =
             Merge(@, [enabled |-> IF Has(@, "enabled") THEN @.enabled ELSE TRUE])]
    ELSE site

\* as migrateConfig, every shortcut that is present enabled
migrateConfigAllEnabled(config) ==
    IF ~Has(config, "version") \/ config.version # DEFAULT_VERSION
    THEN Merge(config,
               [sites |-> [i \in 1..Len(config.sites) |->
                             IF Has(config.sites[i], "shortcuts")
                             THEN [config.sites[i] EXCEPT
                                     !.shortcuts = Merge(@, [enabled |-> TRUE])]
                             ELSE config.sites[i]],
                version |-> DEFAULT_VERSION])
    ELSE config

migrateConfig(config) ==
    IF ~Has(config, "version") \/ config.version # DEFAULT_VERSION
    THEN Merge(config, [sites |-> [i \in 1..Len(config.sites) |-> MigrateSite(config.sites[i])],
                        version |-> DEFAULT_VERSION])
    ELSE config

\* as getConfig, the stored value returned whenever there is one
getConfigUnchecked(st, readFails) ==
    IF ~readFails /\ ~Has(st, "undefined") /\ ~Has(st, "null")
    THEN (IF isValidConfig(st) THEN migrateConfig(st) ELSE st)
    ELSE getDefaultConfig

\* getConfig: a failed read is caught and answered with the defaults
getConfig(st, readFails) ==
    IF ~readFails /\ isValidConfig(st) THEN migrateConfig(st) ELSE getDefaultConfig

\* as saveConfig, the version of the argument kept when it has one
saveConfigKeepVersion(st, config, writeFails) ==
    IF ~isValidConfig(config)
    THEN [error |-> "Invalid configuration format", store |-> st]
    ELSE IF writeFails
    THEN [error |-> "storage.sync.set failed", store |-> st]
    ELSE [error |-> "", store |-> Merge([version |-> DEFAULT_VERSION], config)]

\* as saveConfig, the shape checked after the write instead of before it
saveConfigWriteFirst(st, config, writeFails) ==
    IF writeFails
    THEN [error |-> "storage.sync.set failed", store |-> st]
    ELSE IF ~isValidConfig(config)
    THEN [error |-> "Invalid configuration format",
          store |-> Merge(config, [version |-> DEFAULT_VERSION])]
    ELSE [error |-> "", store |-> Merge(config, [version |-> DEFAULT_VERSION])]

\* saveConfig: [error, store] where error is "" on success
saveConfig(st, config, writeFails) ==
    IF ~isValidConfig(config)
    THEN [error |-> "Invalid configuration format", store |-> st]
    ELSE IF writeFails
    THEN [error |-> "storage.sync.set failed", store |-> st]
    ELSE [error |-> "", store |-> Merge(config, [version |-> DEFAULT_VERSION])]

getSites(st, readFails) == getConfig(st, readFails).sites

saveSites(st, sites, readFails, writeFails) ==
    saveConfig(st, Merge(getConfig(st, readFails), [sites |-> sites]), writeFails)

getSettings(st, readFails) == getConfig(st, readFails).settings

\* as mergeWithDefault, the default sites taken when no site is imported
mergeWithDefaultSites(config) ==
    [version |-> DEFAULT_VERSION,
     sites |-> IF config.sites = <<>> THEN getDefaultConfig.sites ELSE config.sites,
     settings |-> Merge(getDefaultConfig.settings, config.settings)]

\* mergeWithDefault: config.sites is an array here, and an array is truthy
mergeWithDefault(config) ==
    [version |-> DEFAULT_VERSION,
     sites |-> config.sites,
     settings |-> Merge(getDefaultConfig.settings, config.settings)]

\* A text handed to JSON.parse: one that does not parse, or the value it
\* parses to (an object, or null).
Unparsable == [parses |-> FALSE]
Text(value) == [parses |-> TRUE, value |-> value]
JsonNull == [null |-> TRUE]

\* importConfig: [error, store, value]
importConfig(st, configJson, writeFails) ==
    IF ~configJson.parses
    THEN [error |-> "SyntaxError", store |-> st, value |-> <<>>]
    ELSE IF ~isValidConfig(configJson.value)
    THEN [error |-> "Invalid imported configuration format", store |-> st, value |-> <<>>]
    ELSE LET mergedConfig == mergeWithDefault(configJson.value)
             saved == saveConfig(st, mergedConfig, writeFails)
         IN  [error |-> saved.error, store |-> saved.store,
              value |-> IF saved.error = "" THEN mergedConfig ELSE <<>>]

saveSettings(st, settings, readFails, writeFails) ==
    saveConfig(st, Merge(getConfig(st, readFails), [settings |-> settings]), writeFails)

\* as resetToDefault, only the sites of the defaults saved
resetToDefaultSites(st, writeFails) ==
    LET saved == saveSites(st, getDefaultConfig.sites, FALSE, writeFails)
    IN  [error |-> saved.error, store |-> saved.store,
         value |-> IF saved.error = "" THEN getDefaultConfig ELSE <<>>]

\* resetToDefault: [error, store, value]
resetToDefault(st, writeFails) ==
    LET defaultConfig == getDefaultConfig
        saved == saveConfig(st, defaultConfig, writeFails)
    IN  [error |-> saved.error, store |-> saved.store,
         value |-> IF saved.error = "" THEN defaultConfig ELSE <<>>]

\* clearAll: browser.storage.sync.remove of every key
clearAll(st, writeFails) ==
    IF writeFails
    THEN [error |-> "storage.sync.remove failed", store |-> st, value |-> <<>>]
    ELSE [error |-> "", store |-> NoDocument, value |-> <<>>]

\* as exportConfig, the stored value exported as it is, without a load
exportConfigStored(st, t, readFails) ==
    Text(Merge(st, [exportDate |-> t]))

\* exportConfig: the text of { ...config, exportDate }, t the time of the call
exportConfig(st, t, readFails) ==
    Text(Merge(getConfig(st, readFails), [exportDate |-> t]))

(***************************************************************************)
(* Shortcuts: canonical strings, conflicts, mapping.                       *)
(***************************************************************************)
\* Rank of a modifier string in the UTF-16 code unit order that
\* Array.prototype.sort() uses without a comparator.
CodeUnitOrder == <<"Ctrl", "alt", "cmd", "ctrl", "meta", "shift">>

Rank(m) == CHOOSE i \in 1..Len(CodeUnitOrder) : CodeUnitOrder[i] = m

RECURSIVE InsertSorted(_, _)
InsertSorted(x, s) ==
    IF s = <<>> THEN <<x>>
    ELSE IF Rank(x) < Rank(Head(s)) THEN <<x>> \o s
    ELSE <<Head(s)>> \o InsertSorted(x, Tail(s))

\* modifiers.sort()
RECURSIVE SortModifiers(_)
SortModifiers(s) ==
    IF s = <<>> THEN <<>>
    ELSE InsertSorted(s[Len(s)], SortModifiers(SubSeq(s, 1, Len(s) - 1)))

\* parts.join('+'): the pieces with a "+" element between them; an empty
\* piece contributes no element
RECURSIVE Join(_)
Join(parts) ==
    IF parts = <<>> THEN <<>>
    ELSE (IF Head(parts) = "" THEN <<>> ELSE <<Head(parts)>>)
         \o (IF Len(parts) > 1 THEN <<"+">> \o Join(Tail(parts)) ELSE <<>>)

\* as formatShortcutString, the modifiers joined in the order given
formatShortcutStringUnsorted(shortcut) ==
    Join(shortcut.modifiers \o <<shortcut.key>>)

\* formatShortcutString: the string returned
formatShortcutString(shortcut) ==
    Join(SortModifiers(shortcut.modifiers) \o <<shortcut.key>>)

\* formatShortcutString: its argument after the call (sort() sorts in place)
formatShortcutStringArg(shortcut) ==
    [shortcut EXCEPT !.modifiers = SortModifiers(@)]

\* shortcutStr.split('+'): the pieces between the "+" elements, "" where
\* nothing stands between two of them or at an end (a string made by join
\* has one element for each piece that is not empty)
RECURSIVE Split(_)
Split(str) ==
    LET at == {i \in 1..Len(str) : str[i] = "+"}
        first == CHOOSE i \in at : \A j \in at : i <= j
        piece(seg) == IF seg = <<>> THEN "" ELSE seg[1]
    IN  IF at = {} THEN <<piece(str)>>
        ELSE <<piece(SubSeq(str, 1, first - 1))>> \o Split(SubSeq(str, first + 1, Len(str)))

\* as parseShortcutString, the key taken from the front (parts.shift())
parseShortcutStringKeyFirst(shortcutStr) ==
    LET parts == Split(shortcutStr)
    IN  IF Len(parts) < 2 THEN [null |-> TRUE]
        ELSE [key |-> parts[1], modifiers |-> Tail(parts), enabled |-> TRUE]

\* parseShortcutString: a chord, or null
parseShortcutString(shortcutStr) ==
    LET parts == Split(shortcutStr)
    IN  IF Len(parts) < 2 THEN [null |-> TRUE]
        ELSE [key |-> parts[Len(parts)],
              modifiers |-> SubSeq(parts, 1, Len(parts) - 1),
              enabled |-> TRUE]

MODIFIER_KEYS == {"ctrl", "alt", "shift", "meta"}

SHORTCUT_KEYS ==
    Digits \cup Range(LowerCase)
    \cup {"F1", "F2", "F3", "F4", "F5", "F6", "F7", "F8", "F9", "F10", "F11", "F12"}

validateShortcut(shortcut) ==
    /\ Len(shortcut.modifiers) # 0
    /\ \A i \in 1..Len(shortcut.modifiers) : shortcut.modifiers[i] \in MODIFIER_KEYS
    /\ shortcut.key \in SHORTCUT_KEYS

\* site.shortcuts?.enabled
ShortcutEnabled(site) ==
    /\ Has(site, "shortcuts")
    /\ Has(site.shortcuts, "enabled")
    /\ site.shortcuts.enabled

\* checkShortcutConflicts: the indices of the conflicting sites, ascending
checkShortcutConflicts(sites, excludeSiteId, shortcut) ==
    FilterIdx(sites,
              {i \in 1..Len(sites) :
                  /\ sites[i].id # excludeSiteId
                  /\ ShortcutEnabled(sites[i])
                  /\ formatShortcutString(sites[i].shortcuts) = formatShortcutString(shortcut)},
              1)

\* checkShortcutConflicts: the sites array after the call
checkShortcutConflictsArg(sites, excludeSiteId) ==
    [i \in 1..Len(sites) |->
        IF sites[i].id # excludeSiteId /\ ShortcutEnabled(sites[i])
        THEN [sites[i] EXCEPT !.shortcuts = formatShortcutStringArg(@)]
        ELSE sites[i]]

(***************************************************************************)
(* ConfigManager: sites.                                                   *)
(***************************************************************************)
IsBuiltIn(site) == Has(site, "isBuiltIn") /\ site.isBuiltIn

\* sites.findIndex(site => site.id === id), 0 for -1
FindIndex(sites, id) ==
    IF \E i \in 1..Len(sites) : sites[i].id = id
    THEN CHOOSE i \in 1..Len(sites) :
            sites[i].id = id /\ \A j \in 1..(i - 1) : sites[j].id # id
    ELSE 0

validateSiteInput(input) ==
    IF input.name = <<>> \/ trim(input.name) = <<>>
    THEN "Site name cannot be empty"
    ELSE IF input.urlTemplate = <<>> \/ ~URL_TEMPLATE_REGEX(input.urlTemplate)
    THEN "Invalid URL template format, must contain {REPO_PATH} placeholder"
    ELSE IF input.category \notin {"source", "ai"}
    THEN "Site category must be source or ai"
    ELSE IF input.icon = <<>> \/ trim(input.icon) = <<>>
    THEN "Icon cannot be empty"
    ELSE ""

IsLowerAlnum(c) == c \in Range(LowerCase) \cup Digits

\* .replace(/[^a-z0-9]/g, '-')
Dashed(s) == [i \in 1..Len(s) |-> IF IsLowerAlnum(s[i]) THEN s[i] ELSE "-"]

\* .replace(/-+/g, '-')
RECURSIVE Collapse(_)
Collapse(s) ==
    IF Len(s) < 2 THEN s
    ELSE IF s[1] = "-" /\ s[2] = "-" THEN Collapse(Tail(s))
    ELSE <<s[1]>> \o Collapse(Tail(s))

\* .replace(/^-|-$/g, '')
StripDash(s) ==
    LET a == IF s # <<>> /\ Head(s) = "-" THEN Tail(s) ELSE s
    IN  IF a # <<>> /\ a[Len(a)] = "-" THEN SubSeq(a, 1, Len(a) - 1) ELSE a

\* `custom-${base}-${Date.now()}`
generateSiteId(name, t) ==
    <<"custom", StripDash(Collapse(Dashed(toLowerCase(name)))), t>>

\* Every operation below yields [error, store, value]: the message of the
\* error thrown ("" when none), the stored value afterwards and the value
\* returned. f names the store faults of the call: r1 the read made by the
\* operation, r2 the read made inside saveSites / saveSettings, w the write.
Failed(st, msg) == [error |-> msg, store |-> st, value |-> <<>>]

Saved(saved, value) ==
    [error |-> saved.error, store |-> saved.store,
     value |-> IF saved.error = "" THEN value ELSE <<>>]

\* as addSite, the limit compared with > instead of >=
addSiteOffByOne(st, input, t, f) ==
    LET sites == getSites(st, f.r1)
        customSitesCount == Cardinality({i \in 1..Len(sites) : ~IsBuiltIn(sites[i])})
        err == validateSiteInput(input)
        id == generateSiteId(input.name, t)
        newSite == Merge(input,
                     [id |-> id, isBuiltIn |-> FALSE,
                      order |-> SetMax({sites[i].order : i \in 1..Len(sites)} \cup {0}) + 1])
    IN  IF customSitesCount > MAX_CUSTOM_SITES
        THEN Failed(st, "Maximum custom sites allowed")
        ELSE IF err # "" THEN Failed(st, err)
        ELSE IF \E i \in 1..Len(sites) : sites[i].id = id
        THEN Failed(st, "Site ID already exists")
        ELSE Saved(saveSites(st, Append(sites, newSite), f.r2, f.w), newSite)

addSite(st, input, t, f) ==
    LET sites == getSites(st, f.r1)
        customSitesCount == Cardinality({i \in 1..Len(sites) : ~IsBuiltIn(sites[i])})
        err == validateSiteInput(input)
        id == generateSiteId(input.name, t)
        newSite == Merge(input,
                     [id |-> id, isBuiltIn |-> FALSE,
                      order |-> SetMax({sites[i].order : i \in 1..Len(sites)} \cup {0}) + 1])
    IN  IF customSitesCount >= MAX_CUSTOM_SITES
        THEN Failed(st, "Maximum custom sites allowed")
        ELSE IF err # "" THEN Failed(st, err)
        ELSE IF \E i \in 1..Len(sites) : sites[i].id = id
        THEN Failed(st, "Site ID already exists")
        ELSE Saved(saveSites(st, Append(sites, newSite), f.r2, f.w), newSite)

\* updates.x || currentSite.x
OrElse(updates, current, field, falsy) ==
    IF Has(updates, field) /\ updates[field] # falsy THEN updates[field] ELSE current[field]

Truthy(updates, field, falsy) == Has(updates, field) /\ updates[field] # falsy

updateSite(st, id, updates, f) ==
    LET sites == getSites(st, f.r1)
        siteIndex == FindIndex(sites, id)
        currentSite == sites[siteIndex]
        validated ==
            \/ Truthy(updates, "name", <<>>)
            \/ Truthy(updates, "urlTemplate", <<>>)
            \/ Truthy(updates, "category", "")
            \/ Truthy(updates, "icon", <<>>)
        err == IF validated
               THEN validateSiteInput(
                      [name |-> OrElse(updates, currentSite, "name", <<>>),
                       description |-> OrElse(updates, currentSite, "description", ""),
                       category |-> OrElse(updates, currentSite, "category", ""),
                       urlTemplate |-> OrElse(updates, currentSite, "urlTemplate", <<>>),
                       icon |-> OrElse(updates, currentSite, "icon", <<>>),
                       enabled |-> IF Has(updates, "enabled") THEN updates.enabled
                                   ELSE currentSite.enabled])
               ELSE ""
        updatedSite == Merge(currentSite, updates)
    IN  IF siteIndex = 0 THEN Failed(st, "Site does not exist")
        ELSE IF err # "" THEN Failed(st, err)
        ELSE Saved(saveSites(st, [sites EXCEPT ![siteIndex] = updatedSite], f.r2, f.w),
                   updatedSite)

\* as deleteSite, without the refusal to delete a built-in site
deleteSiteAny(st, id, f) ==
    LET sites == getSites(st, f.r1)
        siteIndex == FindIndex(sites, id)
    IN  IF siteIndex = 0 THEN Failed(st, "Site does not exist")
        ELSE Saved(saveSites(st,
                             FilterIdx(sites, {i \in 1..Len(sites) : sites[i].id # id}, 1),
                             f.r2, f.w),
                   <<>>)

deleteSite(st, id, f) ==
    LET sites == getSites(st, f.r1)
        siteIndex == FindIndex(sites, id)
    IN  IF siteIndex = 0 THEN Failed(st, "Site does not exist")
        ELSE IF IsBuiltIn(sites[siteIndex])
        THEN Failed(st, "Built-in sites cannot be deleted, only disabled")
        ELSE Saved(saveSites(st,
                             FilterIdx(sites, {i \in 1..Len(sites) : sites[i].id # id}, 1),
                             f.r2, f.w),
                   <<>>)

toggleSite(st, id, enabled, f) == updateSite(st, id, [enabled |-> enabled], f)

\* new Map(sites.map(site => [site.id, site])).get(id): the last site with that id
MapGet(sites, id) ==
    sites[CHOOSE i \in 1..Len(sites) :
             sites[i].id = id /\ \A j \in (i + 1)..Len(sites) : sites[j].id # id]

\* as reorderSites, the sites not listed numbered from 1 again
reorderSitesFromOne(st, siteIds, f) ==
    LET sites == getSites(st, f.r1)
        existingIds == {sites[i].id : i \in 1..Len(sites)}
        missingIds == {i \in 1..Len(siteIds) : siteIds[i] \notin existingIds}
        reorderedSites ==
            [i \in 1..Len(siteIds) |-> Merge(MapGet(sites, siteIds[i]), [order |-> i])]
        rest == FilterIdx(sites, {i \in 1..Len(sites) : sites[i].id \notin Range(siteIds)}, 1)
        unorderedSites == [i \in 1..Len(rest) |-> Merge(rest[i], [order |-> i])]
        allSites == reorderedSites \o unorderedSites
    IN  IF missingIds # {} THEN Failed(st, "Sites do not exist")
        ELSE Saved(saveSites(st, allSites, f.r2, f.w), allSites)

reorderSites(st, siteIds, f) ==
    LET sites == getSites(st, f.r1)
        existingIds == {sites[i].id : i \in 1..Len(sites)}
        missingIds == {i \in 1..Len(siteIds) : siteIds[i] \notin existingIds}
        reorderedSites ==
            [i \in 1..Len(siteIds) |-> Merge(MapGet(sites, siteIds[i]), [order |-> i])]
        rest == FilterIdx(sites, {i \in 1..Len(sites) : sites[i].id \notin Range(siteIds)}, 1)
        unorderedSites ==
            [i \in 1..Len(rest) |-> Merge(rest[i], [order |-> Len(siteIds) + i])]
        allSites == reorderedSites \o unorderedSites
    IN  IF missingIds # {} THEN Failed(st, "Sites do not exist")
        ELSE Saved(saveSites(st, allSites, f.r2, f.w), allSites)

\* shortcut is a chord, or Null
Null == [null |-> TRUE]

\* as updateSiteShortcut, the updated site not put back into the list
updateSiteShortcutNotStored(st, siteId, shortcut, f) ==
    LET sites == getSites(st, f.r1)
        siteIndex == FindIndex(sites, siteId)
        checked == shortcut # Null /\ Has(shortcut, "enabled") /\ shortcut.enabled
        conflicts == IF checked THEN checkShortcutConflicts(sites, siteId, shortcut) ELSE <<>>
    IN  IF siteIndex = 0 THEN Failed(st, "Site does not exist")
        ELSE IF conflicts # <<>> THEN Failed(st, "Shortcut conflict")
        ELSE Saved(saveSites(st, sites, f.r2, f.w), sites[siteIndex])

updateSiteShortcut(st, siteId, shortcut, f) ==
    LET sites == getSites(st, f.r1)
        siteIndex == FindIndex(sites, siteId)
        checked == shortcut # Null /\ Has(shortcut, "enabled") /\ shortcut.enabled
        conflicts == IF checked THEN checkShortcutConflicts(sites, siteId, shortcut) ELSE <<>>
        sitesAfter == IF checked THEN checkShortcutConflictsArg(sites, siteId) ELSE sites
        shortcutAfter == IF checked THEN formatShortcutStringArg(shortcut) ELSE shortcut
        updatedSite == IF shortcut = Null
                       THEN Without(sitesAfter[siteIndex], "shortcuts")
                       ELSE Merge(sitesAfter[siteIndex], [shortcuts |-> shortcutAfter])
    IN  IF siteIndex = 0 THEN Failed(st, "Site does not exist")
        ELSE IF conflicts # <<>> THEN Failed(st, "Shortcut conflict")
        ELSE Saved(saveSites(st, [sitesAfter EXCEPT ![siteIndex] = updatedSite], f.r2, f.w),
                   updatedSite)

\* updateSetting: settings[key] = value on the settings read, then saveSettings
updateSetting(st, key, value, f) ==
    LET settings == getSettings(st, f.r1)
        changed == [k \in DOMAIN settings \cup {key} |-> IF k = key THEN value ELSE settings[k]]
    IN  Saved(saveSettings(st, changed, f.r2, f.w), <<>>)

\* sites.filter(site => site.enabled).sort((a, b) => a.order - b.order): stable
RECURSIVE InsertByOrder(_, _)
InsertByOrder(x, s) ==
    IF s = <<>> THEN <<x>>
    ELSE IF s[Len(s)].order <= x.order THEN Append(s, x)
    ELSE Append(InsertByOrder(x, SubSeq(s, 1, Len(s) - 1)), s[Len(s)])

RECURSIVE SortByOrder(_)
SortByOrder(s) ==
    IF s = <<>> THEN <<>>
    ELSE InsertByOrder(s[Len(s)], SortByOrder(SubSeq(s, 1, Len(s) - 1)))

getEnabledSites(st, readFails) ==
    LET sites == getSites(st, readFails)
    IN  SortByOrder(FilterIdx(sites, {i \in 1..Len(sites) : sites[i].enabled}, 1))

\* as getShortcutMapping, over all the sites in stored order
getShortcutMappingAllSites(st, readFails) ==
    LET sites == getSites(st, readFails)
        with == {i \in 1..Len(sites) : ShortcutEnabled(sites[i])}
        keys == {formatShortcutString(sites[i].shortcuts) : i \in with}
        last(k) == SetMax({i \in with : formatShortcutString(sites[i].shortcuts) = k})
    IN  [k \in keys |-> [sites[last(k)] EXCEPT !.shortcuts = formatShortcutStringArg(@)]]

\* getShortcutMapping: Record<string, ServiceSite>, a later site overwrites
\* an earlier one under the same string; formatShortcutString has sorted the
\* modifiers of every site of the mapping
getShortcutMapping(st, readFails) ==
    LET sites == getEnabledSites(st, readFails)
        with == {i \in 1..Len(sites) : ShortcutEnabled(sites[i])}
        keys == {formatShortcutString(sites[i].shortcuts) : i \in with}
        last(k) == SetMax({i \in with : formatShortcutString(sites[i].shortcuts) = k})
    IN  [k \in keys |-> [sites[last(k)] EXCEPT !.shortcuts = formatShortcutStringArg(@)]]

\* as generateSiteUrl, the last occurrence replaced instead of the first
generateSiteUrlLast(site, repoPath) ==
    LET tpl == site.urlTemplate
        at == {i \in 1..Len(tpl) : tpl[i] = "{REPO_PATH}"}
        last == CHOOSE i \in at : \A j \in at : i >= j
    IN  IF at = {} THEN tpl
        ELSE SubSeq(tpl, 1, last - 1) \o <<repoPath>> \o SubSeq(tpl, last + 1, Len(tpl))

\* generateSiteUrl: String.prototype.replace with a string pattern replaces
\* the first occurrence only; repoPath is one piece of text without '$'
generateSiteUrl(site, repoPath) ==
    LET tpl == site.urlTemplate
        at == {i \in 1..Len(tpl) : tpl[i] = "{REPO_PATH}"}
        first == CHOOSE i \in at : \A j \in at : i <= j
    IN  IF at = {} THEN tpl
        ELSE SubSeq(tpl, 1, first - 1) \o <<repoPath>> \o SubSeq(tpl, first + 1, Len(tpl))

\* a ShortcutKey
Chord(key, modifiers, enabled) ==
    [key |-> key, modifiers |-> modifiers, enabled |-> enabled]

\* the keys getSuggestedShortcut tries, in the order of its loop
SuggestedKeys == <<"1", "2", "3", "4", "5", "6", "7", "8", "9", "0">>

\* as getSuggestedShortcut, the keys tried in ascending order '0' to '9'
getSuggestedShortcutAscending(st, siteId, readFails) ==
    LET sites == getSites(st, readFails)
        keys == <<"0">> \o SubSeq(SuggestedKeys, 1, 9)
        usedShortcuts ==
            {formatShortcutString(sites[i].shortcuts) :
                i \in {j \in 1..Len(sites) : sites[j].id # siteId /\ ShortcutEnabled(sites[j])}}
        free == {n \in 1..Len(keys) :
                    formatShortcutString(Chord(keys[n], CTRL_SHIFT, TRUE)) \notin usedShortcuts}
    IN  IF free = {} THEN Null
        ELSE Chord(keys[CHOOSE n \in free : \A m \in free : n <= m], CTRL_SHIFT, TRUE)

\* getSuggestedShortcut: a chord, or null
getSuggestedShortcut(st, siteId, readFails) ==
    LET sites == getSites(st, readFails)
        usedShortcuts ==
            {formatShortcutString(sites[i].shortcuts) :
                i \in {j \in 1..Len(sites) : sites[j].id # siteId /\ ShortcutEnabled(sites[j])}}
        free == {n \in 1..Len(SuggestedKeys) :
                    formatShortcutString(Chord(SuggestedKeys[n], CTRL_SHIFT, TRUE))
                        \notin usedShortcuts}
    IN  IF free = {} THEN Null
        ELSE Chord(SuggestedKeys[CHOOSE n \in free : \A m \in free : n <= m],
                   CTRL_SHIFT, TRUE)

(***************************************************************************)
(* The key-down listener of the content page (App.handleKeydown).          *)
(* event.key is a sequence of characters; a chord's key is the string they *)
(* spell.                                                                  *)
(***************************************************************************)
\* String.prototype.toUpperCase, one character
ToUpperChar(c) ==
    IF \E i \in 1..26 : LowerCase[i] = c
    THEN UpperCase[CHOOSE i \in 1..26 : LowerCase[i] = c]
    ELSE c

toUpperCase(s) == [i \in 1..Len(s) |-> ToUpperChar(s[i])]

\* the string a sequence of characters spells
RECURSIVE Spell(_)
Spell(s) == IF s = <<>> THEN "" ELSE Head(s) \o Spell(Tail(s))

\* let key = event.key.toLowerCase();
\* if (key.startsWith('f') && key.length > 1) key = key.toUpperCase();
EventKey(event) ==
    LET key == toLowerCase(event.key)
    IN  IF Len(key) > 1 /\ key[1] = "f" THEN toUpperCase(key) ELSE key

\* the modifiers pushed for the flags of the event, in the order of the code
EventModifiers(event) ==
    (IF event.ctrlKey THEN <<"ctrl">> ELSE <<>>)
    \o (IF event.altKey THEN <<"alt">> ELSE <<>>)
    \o (IF event.shiftKey THEN <<"shift">> ELSE <<>>)
    \o (IF event.metaKey THEN <<"meta">> ELSE <<>>)

\* what a key-down does to the page: nothing
Ignored == [prevented |-> FALSE, opened |-> Null, newTab |-> FALSE]

\* as handleKeydown, the target of the event not looked at
handleKeydownAnyTarget(st, settings, repoPath, event) ==
    LET modifiers == EventModifiers(event)
        shortcutStr ==
            formatShortcutString(Chord(Spell(EventKey(event)), modifiers, TRUE))
        shortcutMapping == getShortcutMapping(st, FALSE)
    IN  IF ~(Has(settings, "enableShortcuts") /\ settings.enableShortcuts) THEN Ignored
        ELSE IF Len(modifiers) = 0 THEN Ignored
        ELSE IF shortcutStr \in DOMAIN shortcutMapping
        THEN [prevented |-> TRUE,
              opened |-> generateSiteUrl(shortcutMapping[shortcutStr], repoPath),
              newTab |-> settings.openInNewTab]
        ELSE Ignored

\* handleKeydown, for the settings the page has loaded: the listener is
\* installed only when settings.enableShortcuts is truthy
handleKeydown(st, settings, repoPath, event) ==
    LET modifiers == EventModifiers(event)
        shortcutStr ==
            formatShortcutString(Chord(Spell(EventKey(event)), modifiers, TRUE))
        shortcutMapping == getShortcutMapping(st, FALSE)
    IN  IF ~(Has(settings, "enableShortcuts") /\ settings.enableShortcuts) THEN Ignored
        ELSE IF \/ event.target.tagName \in {"INPUT", "TEXTAREA"}
                \/ event.target.isContentEditable
        THEN Ignored
        ELSE IF Len(modifiers) = 0 THEN Ignored
        ELSE IF shortcutStr \in DOMAIN shortcutMapping
        THEN [prevented |-> TRUE,
              opened |-> generateSiteUrl(shortcutMapping[shortcutStr], repoPath),
              newTab |-> settings.openInNewTab]
        ELSE Ignored

(***************************************************************************)
(* ShortcutEditor.handleSave: the chord being edited is validated, and     *)
(* only a valid one is handed to updateSiteShortcut.                       *)
(***************************************************************************)
handleSave(st, siteId, tempShortcut) ==
    IF tempShortcut = Null THEN [error |-> "", store |-> st, value |-> <<>>]
    ELSE IF ~validateShortcut(tempShortcut)
    THEN [error |-> "", store |-> st, value |-> <<>>]
    ELSE LET r == updateSiteShortcut(st, siteId, tempShortcut,
                                     [r1 |-> FALSE, r2 |-> FALSE, w |-> FALSE])
         IN  [error |-> "", store |-> r.store, value |-> r.value]

(***************************************************************************)
(* The calls made on the manager, and the inputs they are made with.       *)
(***************************************************************************)
NoFault == [r1 |-> FALSE, r2 |-> FALSE, w |-> FALSE]

\* what a load returns for the stored value
Loaded(st) == getConfig(st, FALSE)

StoredSites == Loaded(store).sites

IdsOf(sites) == {sites[i].id : i \in 1..Len(sites)}

CustomCount(st) ==
    Cardinality({i \in 1..Len(Loaded(st).sites) : ~IsBuiltIn(Loaded(st).sites[i])})

NameAb == <<"A", "b">>
NameLower == <<"a", "b">>
NameBlank == <<" ">>
IconStar == <<"s", "t", "a", "r">>
TplUpper == <<"https://", "h/", "{REPO_PATH}">>
TplCamel == <<"https://", "h/", "{repoPath}">>
TplBoth == <<"http://", "h/", "{REPO_PATH}", "?", "{repoPath}">>
TplNone == <<"https://", "h/">>
TplFtp == <<"ftp://", "h/", "{REPO_PATH}", "{repoPath}">>

BaseInput ==
    [name |-> NameAb, description |-> "d", category |-> "source",
     urlTemplate |-> TplCamel, icon |-> IconStar, enabled |-> TRUE]

InputUpper == [BaseInput EXCEPT !.urlTemplate = TplUpper]

GITHUB1S == <<"github1s">>
GITHUB_DEV == <<"github_dev">>
UnknownId == <<"missing">>

CustomIds(st) ==
    {Loaded(st).sites[i].id : i \in {j \in 1..Len(Loaded(st).sites) :
                                        ~IsBuiltIn(Loaded(st).sites[j])}}

ChordOne == Chord("1", <<"shift", "ctrl">>, TRUE)
ChordNine == Chord("9", <<"shift", "ctrl">>, TRUE)

\* Spec: every site operation, each with few inputs
AddInputs == {BaseInput, InputUpper}
Patches == {[name |-> NameBlank], [shortcuts |-> ChordOne]}
Chords == {ChordOne, ChordNine, Null}
IdLists == {<<GITHUB_DEV, GITHUB1S>>, <<GITHUB_DEV, GITHUB_DEV>>, <<UnknownId>>}

\* The pages that can have a manager call in progress at the same time (two
\* options pages), and a page with no call in progress.
Pages == {1, 2}

Idle ==
    [pc |-> "idle", call |-> [op |-> "none"], seen |-> Null, patch |-> Null,
     config |-> Null, error |-> "", reads |-> 0, writes |-> 0, overtook |-> Null,
     latest |-> FALSE]

\* a call c ends with outcome r
Returned(c, r) ==
    /\ store' = r.store
    /\ call' = c
    /\ result' = [error |-> r.error, value |-> r.value]
    /\ before' = store
    /\ UNCHANGED pages

Done(c, r) == Returned(c, r) /\ UNCHANGED now

AddSite(input, f) ==
    Done([op |-> "addSite", input |-> input, faults |-> f],
         addSite(store, input, now, f))

UpdateSite(id, updates, f) ==
    Done([op |-> "updateSite", id |-> id, updates |-> updates, faults |-> f],
         updateSite(store, id, updates, f))

DeleteSite(id, f) ==
    Done([op |-> "deleteSite", id |-> id, faults |-> f], deleteSite(store, id, f))

ToggleSite(id, enabled, f) ==
    Done([op |-> "toggleSite", id |-> id, enabled |-> enabled, faults |-> f],
         toggleSite(store, id, enabled, f))

ReorderSites(siteIds, f) ==
    Done([op |-> "reorderSites", siteIds |-> siteIds, faults |-> f],
         reorderSites(store, siteIds, f))

UpdateSiteShortcut(id, shortcut, f) ==
    Done([op |-> "updateSiteShortcut", id |-> id, shortcut |-> shortcut, faults |-> f],
         updateSiteShortcut(store, id, shortcut, f))

SaveConfig(config, f) ==
    Done([op |-> "saveConfig", config |-> config, faults |-> f],
         [error |-> saveConfig(store, config, f.w).error,
          store |-> saveConfig(store, config, f.w).store,
          value |-> <<>>])

ImportConfig(configJson, f) ==
    Done([op |-> "importConfig", configJson |-> configJson, faults |-> f],
         importConfig(store, configJson, f.w))

UpdateSetting(key, value, f) ==
    Done([op |-> "updateSetting", key |-> key, value |-> value, faults |-> f],
         updateSetting(store, key, value, f))

ResetToDefault(f) ==
    Done([op |-> "resetToDefault", faults |-> f], resetToDefault(store, f.w))

ClearAll(f) == Done([op |-> "clearAll", faults |-> f], clearAll(store, f.w))

\* a load; the call remembers which call it follows
GetConfig(f) ==
    Done([op |-> "getConfig", after |-> call.op, faults |-> f],
         [error |-> "", store |-> store, value |-> getConfig(store, f.r1)])

ExportConfig(f) ==
    Done([op |-> "exportConfig", faults |-> f],
         [error |-> "", store |-> store, value |-> exportConfig(store, now, f.r1)])

\* importConfig(await exportConfig()): the text just exported is imported
ImportExported(f) ==
    /\ call.op = "exportConfig"
    /\ Done([op |-> "importConfig", configJson |-> result.value, exported |-> TRUE,
              faults |-> f],
            importConfig(store, result.value, f.w))

SaveSettings(settings, f) ==
    Done([op |-> "saveSettings", settings |-> settings, faults |-> f],
         Saved(saveSettings(store, settings, f.r2, f.w), <<>>))

(***************************************************************************)
(* A mutating manager call, one access to the store at a time. Every such  *)
(* call is                                                                 *)
(*     const x = await getSites() / getSettings()         first read       *)
(*     ... checks, and the new sites or settings ...                       *)
(*     await saveSites(x') / saveSettings(x'), which is                    *)
(*         const config = await this.getConfig()          second read      *)
(*         await this.saveConfig({ ...config, sites })    write            *)
(* and other pages run between the awaits. saveSettings called directly    *)
(* has no first read. The operators above are these steps run without      *)
(* anything in between.                                                    *)
(***************************************************************************)
\* the outcome [error, store, value] of call c made on stored value st at time t
Perform(st, c, t) ==
    CASE c.op = "addSite" -> addSite(st, c.input, t, c.faults)
      [] c.op = "updateSite" -> updateSite(st, c.id, c.updates, c.faults)
      [] c.op = "deleteSite" -> deleteSite(st, c.id, c.faults)
      [] c.op = "toggleSite" -> toggleSite(st, c.id, c.enabled, c.faults)
      [] c.op = "reorderSites" -> reorderSites(st, c.siteIds, c.faults)
      [] c.op = "updateSiteShortcut" -> updateSiteShortcut(st, c.id, c.shortcut, c.faults)
      [] c.op = "updateSetting" -> updateSetting(st, c.key, c.value, c.faults)
      [] c.op = "saveSettings" ->
            Saved(saveSettings(st, c.settings, c.faults.r2, c.faults.w), <<>>)

\* what a call works out from the value st of its first read: the error it
\* throws, or the sites (the settings) it hands to saveSites (saveSettings)
Plan(st, c, t) ==
    LET r == Perform(st, c, t)
    IN  [error |-> r.error,
         patch |-> IF r.error # "" THEN Null
                   ELSE IF c.op = "updateSetting" THEN [settings |-> r.store.settings]
                   ELSE [sites |-> r.store.sites]]

\* page p moves to record rec; no other page is the latest writer any more
Step(p, rec) ==
    /\ pages' = [q \in Pages |-> IF q = p THEN rec ELSE [pages[q] EXCEPT !.latest = FALSE]]
    /\ UNCHANGED <<store, now, call, result, before>>

Begin(p, c) ==
    /\ pages[p].pc = "idle"
    /\ Step(p, IF c.op = "saveSettings"
               THEN [Idle EXCEPT !.pc = "planned", !.call = c,
                                 !.patch = [settings |-> c.settings]]
               ELSE [Idle EXCEPT !.pc = "called", !.call = c])

\* await getSites() / getSettings(), and the checks that follow it
FirstRead(p) ==
    /\ pages[p].pc = "called"
    /\ LET plan == Plan(store, pages[p].call, now)
       IN  Step(p, [pages[p] EXCEPT !.seen = getConfig(store, FALSE),
                                    !.reads = @ + 1,
                                    !.error = plan.error,
                                    !.patch = plan.patch,
                                    !.pc = IF plan.error # "" THEN "done" ELSE "planned"])

\* const config = await this.getConfig() in saveSites / saveSettings
SecondRead(p) ==
    /\ pages[p].pc = "planned"
    /\ Step(p, [pages[p] EXCEPT !.config = getConfig(store, FALSE),
                                !.reads = @ + 1,
                                !.pc = "loaded"])

\* as Write, a call that another one overtook leaving the store as it finds it
WriteUnlessOvertaken(p) ==
    /\ pages[p].pc = "loaded"
    /\ LET saved == saveConfig(store, Merge(pages[p].config, pages[p].patch), FALSE)
       IN  /\ store' = IF pages[p].overtook # Null THEN store ELSE saved.store
           /\ pages' = [q \in Pages |->
                  IF q = p
                  THEN [pages[p] EXCEPT !.writes = @ + 1, !.error = saved.error,
                                        !.pc = "done", !.latest = TRUE]
                  ELSE IF pages[q].pc = "loaded"
                  THEN [pages[q] EXCEPT
                          !.overtook = [call |-> pages[p].call, error |-> saved.error],
                          !.latest = FALSE]
                  ELSE [pages[q] EXCEPT !.latest = FALSE]]
    /\ UNCHANGED <<now, call, result, before>>

\* await this.saveConfig({ ...config, sites }); a page that has made both its
\* reads by now notes the call that wrote before it
Write(p) ==
    /\ pages[p].pc = "loaded"
    /\ LET saved == saveConfig(store, Merge(pages[p].config, pages[p].patch), FALSE)
       IN  /\ store' = saved.store
           /\ pages' = [q \in Pages |->
                  IF q = p
                  THEN [pages[p] EXCEPT !.writes = @ + 1, !.error = saved.error,
                                        !.pc = "done", !.latest = TRUE]
                  ELSE IF pages[q].pc = "loaded"
                  THEN [pages[q] EXCEPT
                          !.overtook = [call |-> pages[p].call, error |-> saved.error],
                          !.latest = FALSE]
                  ELSE [pages[q] EXCEPT !.latest = FALSE]]
    /\ UNCHANGED <<now, call, result, before>>

\* the call of page p has returned or thrown
Return(p) ==
    /\ pages[p].pc = "done"
    /\ Step(p, Idle)

Init ==
    /\ store = NoDocument
    /\ now = 1
    /\ call = [op |-> "none"]
    /\ result = [error |-> "", value |-> <<>>]
    /\ before = NoDocument
    /\ pages = [p \in Pages |-> Idle]

\* the clock advances between calls
Tick ==
    /\ now < MaxNow
    /\ now' = now + 1
    /\ UNCHANGED <<store, call, result, before, pages>>

DoAddSite ==
    \E input \in AddInputs :
        /\ AddSite(input, NoFault)
        /\ CustomCount(store') <= MaxCustom

DoUpdateSite ==
    \E id \in {GITHUB_DEV, UnknownId}, updates \in Patches : UpdateSite(id, updates, NoFault)

DoDeleteSite ==
    \E id \in {GITHUB_DEV, UnknownId} \cup CustomIds(store) : DeleteSite(id, NoFault)

DoToggleSite ==
    \E id \in {GITHUB_DEV, UnknownId}, enabled \in BOOLEAN : ToggleSite(id, enabled, NoFault)

DoReorderSites == \E siteIds \in IdLists : ReorderSites(siteIds, NoFault)

DoUpdateSiteShortcut ==
    \E id \in {GITHUB_DEV, UnknownId}, shortcut \in Chords :
        UpdateSiteShortcut(id, shortcut, NoFault)

Next ==
    \/ Tick
    \/ DoAddSite
    \/ DoUpdateSite
    \/ DoDeleteSite
    \/ DoToggleSite
    \/ DoReorderSites
    \/ DoUpdateSiteShortcut

Spec == Init /\ [][Next]_vars

(***************************************************************************)
(* SpecShortcut: shortcut assignment with every order of modifiers, on two *)
(* built-in sites, one of which is also toggled and patched.               *)
(***************************************************************************)
ShortcutKeys == {"1", "9"}
ModifierLists == {CTRL_SHIFT, <<"shift", "ctrl">>, <<"ctrl">>}

ChordsAll ==
    {Chord(k, m, e) : k \in ShortcutKeys, m \in ModifierLists, e \in BOOLEAN} \cup {Null}

ShortcutAssign ==
    \E id \in {GITHUB_DEV, UnknownId}, shortcut \in ChordsAll :
        UpdateSiteShortcut(id, shortcut, NoFault)

ShortcutAssignOther ==
    \E shortcut \in {ChordNine, Null} : UpdateSiteShortcut(GITHUB1S, shortcut, NoFault)

ShortcutToggle == \E enabled \in BOOLEAN : ToggleSite(GITHUB_DEV, enabled, NoFault)

ShortcutPatch == UpdateSite(GITHUB_DEV, [shortcuts |-> ChordNine], NoFault)

ShortcutNext == ShortcutAssign \/ ShortcutAssignOther \/ ShortcutToggle \/ ShortcutPatch

SpecShortcut == Init /\ [][ShortcutNext]_vars

(***************************************************************************)
(* SpecSites: addSite and updateSite with acceptable and unacceptable      *)
(* values of every validated field.                                        *)
(***************************************************************************)
AddInputsAll ==
    { BaseInput,
      InputUpper,
      [BaseInput EXCEPT !.name = NameLower, !.urlTemplate = TplBoth],
      [BaseInput EXCEPT !.urlTemplate = TplNone],
      [BaseInput EXCEPT !.urlTemplate = TplFtp],
      [BaseInput EXCEPT !.urlTemplate = <<>>],
      [BaseInput EXCEPT !.name = NameBlank],
      [BaseInput EXCEPT !.name = <<>>],
      [BaseInput EXCEPT !.category = "other"],
      [BaseInput EXCEPT !.icon = <<>>] }

PatchesAll ==
    { [name |-> <<>>],
      [name |-> NameBlank],
      [name |-> NameLower],
      [urlTemplate |-> TplUpper],
      [urlTemplate |-> TplNone],
      [category |-> "other"],
      [icon |-> <<>>],
      [name |-> <<>>, urlTemplate |-> TplNone] }

SitesAdd ==
    \E input \in AddInputsAll :
        /\ AddSite(input, NoFault)
        /\ CustomCount(store') <= MaxCustom

SitesUpdate ==
    \E id \in {GITHUB_DEV, UnknownId} \cup CustomIds(store), updates \in PatchesAll :
        UpdateSite(id, updates, NoFault)

SitesDelete == \E id \in {GITHUB_DEV} \cup CustomIds(store) : DeleteSite(id, NoFault)

SitesNext == Tick \/ SitesAdd \/ SitesUpdate \/ SitesDelete

SpecSites == Init /\ [][SitesNext]_vars

(***************************************************************************)
(* SpecLimit: custom sites are added, one millisecond apart, up to the     *)
(* maximum, and deleted oldest first.                                      *)
(***************************************************************************)
LimitAdd ==
    /\ now < MaxNowLimit
    /\ now' = now + 1
    /\ Returned([op |-> "addSite", input |-> BaseInput, faults |-> NoFault],
                addSite(store, BaseInput, now, NoFault))

OldestCustomId(st) ==
    {Loaded(st).sites[i].id : i \in {j \in 1..Len(Loaded(st).sites) :
        /\ ~IsBuiltIn(Loaded(st).sites[j])
        /\ \A k \in 1..(j - 1) : IsBuiltIn(Loaded(st).sites[k])}}

LimitDelete == \E id \in {GITHUB_DEV} \cup OldestCustomId(store) : DeleteSite(id, NoFault)

LimitNext == LimitAdd \/ LimitDelete

SpecLimit == Init /\ [][LimitNext]_vars

(***************************************************************************)
(* SpecReorder: reorderSites with partial, full, repeated and unknown ids, *)
(* over lists that addSite, deleteSite and toggleSite change.              *)
(***************************************************************************)
DEEPWIKI == <<"deepwiki">>

ReorderLists(st) ==
    { <<>>, <<GITHUB1S>>, <<GITHUB_DEV, GITHUB1S>>, <<GITHUB_DEV, GITHUB_DEV>>,
      <<UnknownId, GITHUB_DEV>>, <<DEEPWIKI, GITHUB_DEV, GITHUB1S>> }
    \cup {<<id, GITHUB_DEV>> : id \in CustomIds(st)}

ReorderCall == \E siteIds \in ReorderLists(store) : ReorderSites(siteIds, NoFault)

ReorderAdd == AddSite(BaseInput, NoFault) /\ CustomCount(store') <= MaxCustom

ReorderDelete == \E id \in CustomIds(store) : DeleteSite(id, NoFault)

ReorderToggle == \E enabled \in BOOLEAN : ToggleSite(GITHUB_DEV, enabled, NoFault)

ReorderNext == ReorderCall \/ ReorderAdd \/ ReorderDelete \/ ReorderToggle

SpecReorder == Init /\ [][ReorderNext]_vars

(***************************************************************************)
(* SpecFaults: every operation, with few inputs, while reads and writes of *)
(* the store may fail.                                                     *)
(***************************************************************************)
Faults == [r1 : BOOLEAN, r2 : BOOLEAN, w : BOOLEAN]

WriteFaults == {NoFault, [NoFault EXCEPT !.w = TRUE]}

ConfigDisabled ==
    [DEFAULT_CONFIG EXCEPT !.sites[1].enabled = FALSE, !.version = "0.9.0"]

ConfigsSaved == {ConfigDisabled, [sites |-> DEFAULT_SITES], [settings |-> DEFAULT_SETTINGS]}

ConfigsImported ==
    { Unparsable, Text(JsonNull), Text([sites |-> <<>>]),
      Text([sites |-> <<DEFAULT_SITES[2]>>, settings |-> [openInNewTab |-> FALSE]]) }

FaultsAdd ==
    \E input \in AddInputs, f \in Faults :
        /\ AddSite(input, f)
        /\ CustomCount(store') <= MaxCustom

FaultsUpdate ==
    \E updates \in {[name |-> NameBlank], [enabled |-> FALSE]}, f \in Faults :
        UpdateSite(GITHUB_DEV, updates, f)

FaultsDelete ==
    \E id \in {GITHUB_DEV, UnknownId} \cup CustomIds(store), f \in Faults : DeleteSite(id, f)

FaultsReorder ==
    \E siteIds \in {<<GITHUB_DEV, GITHUB1S>>, <<UnknownId>>}, f \in Faults :
        ReorderSites(siteIds, f)

FaultsShortcut ==
    \E shortcut \in {ChordOne, ChordNine}, f \in Faults :
        UpdateSiteShortcut(GITHUB_DEV, shortcut, f)

FaultsSave == \E config \in ConfigsSaved, f \in WriteFaults : SaveConfig(config, f)

FaultsImport == \E configJson \in ConfigsImported, f \in WriteFaults : ImportConfig(configJson, f)

FaultsNext ==
    \/ FaultsAdd
    \/ FaultsUpdate
    \/ FaultsDelete
    \/ FaultsReorder
    \/ FaultsShortcut
    \/ FaultsSave
    \/ FaultsImport

SpecFaults == Init /\ [][FaultsNext]_vars

(***************************************************************************)
(* SpecUrl: URLs generated for the stored sites, among them custom sites   *)
(* whose template holds no, one or two {REPO_PATH} placeholders.           *)
(***************************************************************************)
TplTwice == <<"https://", "h/", "{REPO_PATH}", "/", "{REPO_PATH}", "?", "{repoPath}">>

UrlInputs ==
    { BaseInput,
      [BaseInput EXCEPT !.urlTemplate = TplBoth],
      [BaseInput EXCEPT !.urlTemplate = TplTwice] }

RepoPaths == {"owner/repo", "o/r"}

GenerateSiteUrl(site, repoPath) ==
    Done([op |-> "generateSiteUrl", site |-> site, repoPath |-> repoPath],
         [error |-> "", store |-> store, value |-> generateSiteUrl(site, repoPath)])

UrlAdd ==
    \E input \in UrlInputs :
        /\ AddSite(input, NoFault)
        /\ CustomCount(store') <= MaxCustom

UrlDelete == \E id \in CustomIds(store) : DeleteSite(id, NoFault)

UrlGenerate ==
    \E i \in 1..Len(StoredSites), repoPath \in RepoPaths :
        GenerateSiteUrl(StoredSites[i], repoPath)

UrlNext == Tick \/ UrlAdd \/ UrlDelete \/ UrlGenerate

SpecUrl == Init /\ [][UrlNext]_vars

(***************************************************************************)
(* SpecChord: chords, valid and not, are formatted, and the string made is *)
(* parsed back; other strings are parsed too.                              *)
(***************************************************************************)
ChordKeys == {"1", "0", "a", "z", "F1", "F12", "+", "Enter"}

ChordModifiers ==
    { <<>>, <<"ctrl">>, <<"meta">>, CTRL_SHIFT, <<"shift", "ctrl">>, <<"ctrl", "ctrl">>,
      <<"shift", "alt", "meta">>, <<"meta", "shift", "alt", "ctrl">>,
      <<"cmd">>, <<"shift", "Ctrl">> }

ChordTexts == {<<>>, <<"9">>, <<"+">>, <<"ctrl", "+">>, <<"+", "9">>}

FormatShortcutString ==
    \E key \in ChordKeys, modifiers \in ChordModifiers, enabled \in BOOLEAN :
        LET shortcut == Chord(key, modifiers, enabled)
        IN  Done([op |-> "formatShortcutString", shortcut |-> shortcut],
                 [error |-> "", store |-> store, value |-> formatShortcutString(shortcut)])

\* the string just made is parsed; the call remembers the chord it was made of
ParseFormatted ==
    /\ call.op = "formatShortcutString"
    /\ Done([op |-> "parseShortcutString", shortcutStr |-> result.value,
              formatted |-> call.shortcut],
            [error |-> "", store |-> store, value |-> parseShortcutString(result.value)])

ParseText ==
    \E shortcutStr \in ChordTexts :
        Done([op |-> "parseShortcutString", shortcutStr |-> shortcutStr],
             [error |-> "", store |-> store, value |-> parseShortcutString(shortcutStr)])

ChordNext == FormatShortcutString \/ ParseFormatted \/ ParseText

SpecChord == Init /\ [][ChordNext]_vars

(***************************************************************************)
(* SpecSuggest: shortcuts are suggested while snapshots with up to ten     *)
(* sites are imported, shortcuts are reassigned and a site is toggled.     *)
(***************************************************************************)
\* a custom site "Ab" created at time t that holds ctrl+shift+key
SiteWithKey(t, key) ==
    Merge(BaseInput,
          [id |-> generateSiteId(NameAb, t), isBuiltIn |-> FALSE, order |-> 5 + t,
           shortcuts |-> Chord(key, CTRL_SHIFT, TRUE)])

SitesNine ==
    DEFAULT_SITES \o <<SiteWithKey(1, "6"), SiteWithKey(2, "7"), SiteWithKey(3, "8"),
                       SiteWithKey(4, "9")>>

SitesTen == Append(SitesNine, SiteWithKey(5, "0"))

SuggestSnapshots ==
    { Text([sites |-> SitesNine, settings |-> DEFAULT_SETTINGS]),
      Text([sites |-> SitesTen, settings |-> DEFAULT_SETTINGS]) }

SuggestChords ==
    {Null, Chord("1", <<"shift", "ctrl">>, TRUE), Chord("7", CTRL_SHIFT, FALSE),
     Chord("2", <<"ctrl">>, TRUE)}

NewId == <<"new">>

GetSuggestedShortcut(siteId) ==
    Done([op |-> "getSuggestedShortcut", id |-> siteId],
         [error |-> "", store |-> store,
          value |-> getSuggestedShortcut(store, siteId, FALSE)])

SuggestImport == \E configJson \in SuggestSnapshots : ImportConfig(configJson, NoFault)

SuggestAssign ==
    \E id \in {GITHUB1S, GITHUB_DEV}, shortcut \in SuggestChords :
        UpdateSiteShortcut(id, shortcut, NoFault)

SuggestToggle == \E enabled \in BOOLEAN : ToggleSite(GITHUB1S, enabled, NoFault)

SuggestCall ==
    \E id \in {GITHUB1S, GITHUB_DEV, NewId, generateSiteId(NameAb, 5)} :
        GetSuggestedShortcut(id)

SuggestNext == SuggestImport \/ SuggestAssign \/ SuggestToggle \/ SuggestCall

SpecSuggest == Init /\ [][SuggestNext]_vars

(***************************************************************************)
(* SpecMapping: the shortcut mapping is read while two built-in sites are  *)
(* toggled, given shortcuts (with and without the conflict check) and      *)
(* moved in the order.                                                     *)
(***************************************************************************)
MappingChords == {ChordNine, Chord("9", CTRL_SHIFT, FALSE), Null}

MappingPatches == {[shortcuts |-> ChordNine], [order |-> 9]}

GetShortcutMapping ==
    Done([op |-> "getShortcutMapping"],
         [error |-> "", store |-> store, value |-> getShortcutMapping(store, FALSE)])

MappingAssign ==
    \E shortcut \in MappingChords : UpdateSiteShortcut(GITHUB_DEV, shortcut, NoFault)

MappingPatch == \E updates \in MappingPatches : UpdateSite(GITHUB1S, updates, NoFault)

MappingToggle ==
    \E id \in {GITHUB_DEV, <<"sourcegraph">>}, enabled \in BOOLEAN :
        ToggleSite(id, enabled, NoFault)

MappingNext == GetShortcutMapping \/ MappingAssign \/ MappingPatch \/ MappingToggle

SpecMapping == Init /\ [][MappingNext]_vars

(***************************************************************************)
(* SpecStore: the StorageManager operations, starting from whatever the    *)
(* synced store holds: nothing, a document of another shape, a document of *)
(* an older version, or a current one.                                     *)
(***************************************************************************)
OLD_VERSION == "0.9.0"

\* three sites: a shortcut without the enabled flag, a disabled shortcut, none
OldSites ==
    << [DEFAULT_SITES[1] EXCEPT !.shortcuts = [key |-> "1", modifiers |-> CTRL_SHIFT]],
       [DEFAULT_SITES[2] EXCEPT !.shortcuts.enabled = FALSE],
       Without(DEFAULT_SITES[3], "shortcuts") >>

SettingsChanged == [DEFAULT_SETTINGS EXCEPT !.openInNewTab = FALSE, !.defaultSiteId = <<"zread">>]

DocOld == [sites |-> OldSites, settings |-> SettingsChanged, version |-> OLD_VERSION]
\* a document written before settings.enableShortcuts and version existed
DocNoVersion == [sites |-> OldSites, settings |-> Without(DEFAULT_SETTINGS, "enableShortcuts")]
DocCurrent == [sites |-> OldSites, settings |-> SettingsChanged, version |-> DEFAULT_VERSION]
DocSitesOnly == [sites |-> DEFAULT_SITES, version |-> DEFAULT_VERSION]
DocSettingsOnly == [settings |-> DEFAULT_SETTINGS, version |-> DEFAULT_VERSION]

StoredDocuments ==
    {NoDocument, JsonNull, DocSitesOnly, DocSettingsOnly, DocOld, DocNoVersion, DocCurrent}

StoreConfigs ==
    { DocSitesOnly, DocSettingsOnly, DocOld, DocNoVersion,
      [sites |-> <<>>, settings |-> [openInNewTab |-> FALSE], version |-> DEFAULT_VERSION] }

StoreSnapshots ==
    { Unparsable, Text(JsonNull), Text(DocSitesOnly), Text(DocSettingsOnly), Text(DocOld),
      Text([sites |-> <<>>, settings |-> [showOnHover |-> TRUE]]),
      Text([sites |-> <<DEFAULT_SITES[5]>>, settings |-> SettingsChanged,
            exportDate |-> 0]) }

InitStored ==
    /\ store \in StoredDocuments
    /\ now = 1
    /\ call = [op |-> "none"]
    /\ result = [error |-> "", value |-> <<>>]
    /\ before = store
    /\ pages = [p \in Pages |-> Idle]

\* a load, whose read of the store may fail
StoreLoad == \E readFails \in BOOLEAN : GetConfig([NoFault EXCEPT !.r1 = readFails])

StoreSave == \E config \in StoreConfigs : SaveConfig(config, NoFault)

StoreImport == \E configJson \in StoreSnapshots : ImportConfig(configJson, NoFault)

StoreReset == ResetToDefault(NoFault)

StoreClear == ClearAll(NoFault)

StoreToggle == ToggleSite(GITHUB_DEV, FALSE, NoFault)

StoreSetting == UpdateSetting("showOnHover", TRUE, NoFault)

StoreAdd == AddSite(BaseInput, NoFault) /\ CustomCount(store') <= MaxCustom

StoreExport == ExportConfig(NoFault)

StoreImportExported == ImportExported(NoFault)

StoreNext ==
    \/ Tick
    \/ StoreLoad
    \/ StoreSave
    \/ StoreImport
    \/ StoreReset
    \/ StoreClear
    \/ StoreToggle
    \/ StoreSetting
    \/ StoreAdd
    \/ StoreExport
    \/ StoreImportExported

SpecStore == InitStored /\ [][StoreNext]_vars

(***************************************************************************)
(* SpecOverlap: two options pages toggle sites, each page its own site,    *)
(* and their calls overlap in every way.                                   *)
(***************************************************************************)
ToggleCall(id, enabled) ==
    [op |-> "toggleSite", id |-> id, enabled |-> enabled, faults |-> NoFault]

OverlapBegin ==
    \/ \E enabled \in BOOLEAN : Begin(1, ToggleCall(GITHUB1S, enabled))
    \/ Begin(2, ToggleCall(GITHUB_DEV, FALSE))

OverlapFirstRead == \E p \in Pages : FirstRead(p)

OverlapSecondRead == \E p \in Pages : SecondRead(p)

OverlapWrite == \E p \in Pages : Write(p)

OverlapReturn == \E p \in Pages : Return(p)

OverlapNext ==
    \/ OverlapBegin
    \/ OverlapFirstRead
    \/ OverlapSecondRead
    \/ OverlapWrite
    \/ OverlapReturn

SpecOverlap == Init /\ [][OverlapNext]_vars

(***************************************************************************)
(* SpecCall: one page makes the mutating calls one after the other, each   *)
(* call one access to the store at a time.                                 *)
(***************************************************************************)
MutatingCalls(st) ==
    {[op |-> "addSite", input |-> BaseInput, faults |-> NoFault],
     [op |-> "updateSite", id |-> GITHUB_DEV, updates |-> [description |-> "e"],
      faults |-> NoFault],
     [op |-> "toggleSite", id |-> GITHUB1S, enabled |-> FALSE, faults |-> NoFault],
     [op |-> "reorderSites", siteIds |-> <<GITHUB_DEV, GITHUB1S>>, faults |-> NoFault],
     [op |-> "updateSiteShortcut", id |-> GITHUB_DEV, shortcut |-> ChordNine,
      faults |-> NoFault],
     [op |-> "updateSetting", key |-> "openInNewTab", value |-> FALSE, faults |-> NoFault],
     [op |-> "saveSettings", settings |-> SettingsChanged, faults |-> NoFault]}
    \cup {[op |-> "deleteSite", id |-> id, faults |-> NoFault] :
             id \in CustomIds(st) \cup {GITHUB_DEV}}

CallBegin ==
    \E c \in MutatingCalls(store) :
        /\ c.op = "addSite" => CustomCount(store) < MaxCustom
        /\ Begin(1, c)

CallFirstRead == FirstRead(1)

CallSecondRead == SecondRead(1)

CallWrite == Write(1)

CallReturn == Return(1)

CallNext ==
    \/ CallBegin
    \/ CallFirstRead
    \/ CallSecondRead
    \/ CallWrite
    \/ CallReturn

SpecCall == Init /\ [][CallNext]_vars

(***************************************************************************)
(* SpecKeys: key-down events on a content page, for whatever settings the  *)
(* page has loaded, while shortcuts are assigned and sites switched.       *)
(***************************************************************************)
ChordF1 == Chord("F1", <<"ctrl">>, TRUE)
ChordA == Chord("a", <<"shift", "alt">>, TRUE)
ChordF == Chord("f", <<"meta">>, TRUE)

KeysChords == {ChordF1, ChordA, ChordF}

EventKeys == {<<"1">>, <<"A">>, <<"f">>, <<"F", "1">>}

Flags(ctrl, alt, shift, meta) ==
    [ctrlKey |-> ctrl, altKey |-> alt, shiftKey |-> shift, metaKey |-> meta]

\* no modifier, ctrl, ctrl+shift, alt+shift, meta
EventFlags ==
    {Flags(FALSE, FALSE, FALSE, FALSE), Flags(TRUE, FALSE, FALSE, FALSE),
     Flags(TRUE, FALSE, TRUE, FALSE), Flags(FALSE, TRUE, TRUE, FALSE),
     Flags(FALSE, FALSE, FALSE, TRUE)}

EventTargets ==
    {[tagName |-> "DIV", isContentEditable |-> FALSE],
     [tagName |-> "DIV", isContentEditable |-> TRUE],
     [tagName |-> "INPUT", isContentEditable |-> FALSE],
     [tagName |-> "TEXTAREA", isContentEditable |-> FALSE]}

Events ==
    {Merge(flags, [key |-> key, target |-> target]) :
        flags \in EventFlags, key \in EventKeys, target \in EventTargets}

PageSettings ==
    {DEFAULT_SETTINGS,
     [DEFAULT_SETTINGS EXCEPT !.openInNewTab = FALSE],
     [DEFAULT_SETTINGS EXCEPT !.enableShortcuts = FALSE]}

REPO_PATH == "owner/repo"

KeyDown(settings, event) ==
    Done([op |-> "keydown", settings |-> settings, repoPath |-> REPO_PATH,
          event |-> event],
         [error |-> "", store |-> store,
          value |-> handleKeydown(store, settings, REPO_PATH, event)])

KeysAssign == \E shortcut \in KeysChords : UpdateSiteShortcut(GITHUB_DEV, shortcut, NoFault)

KeysToggle == \E enabled \in BOOLEAN : ToggleSite(GITHUB1S, enabled, NoFault)

KeysDown == \E settings \in PageSettings, event \in Events : KeyDown(settings, event)

KeysNext == KeysAssign \/ KeysToggle \/ KeysDown

SpecKeys == Init /\ [][KeysNext]_vars

(***************************************************************************)
(* SpecDefault: the site operations and the settings operations, the       *)
(* default site only ever set to the id of a site that is stored.          *)
(***************************************************************************)
DefaultAdd ==
    /\ CustomCount(store) < MaxCustom
    /\ AddSite(BaseInput, NoFault)

DefaultDelete == \E id \in CustomIds(store) \cup {GITHUB_DEV} : DeleteSite(id, NoFault)

DefaultUpdate == UpdateSite(GITHUB_DEV, [description |-> "e"], NoFault)

DefaultToggle == \E enabled \in BOOLEAN : ToggleSite(GITHUB1S, enabled, NoFault)

DefaultReorder == ReorderSites(<<GITHUB_DEV, GITHUB1S>>, NoFault)

DefaultSetting ==
    \/ \E id \in IdsOf(StoredSites) : UpdateSetting("defaultSiteId", id, NoFault)
    \/ UpdateSetting("openInNewTab", FALSE, NoFault)

DefaultSave ==
    \E id \in IdsOf(StoredSites) :
        SaveSettings([DEFAULT_SETTINGS EXCEPT !.defaultSiteId = id], NoFault)

DefaultNext ==
    \/ DefaultAdd
    \/ DefaultDelete
    \/ DefaultUpdate
    \/ DefaultToggle
    \/ DefaultReorder
    \/ DefaultSetting
    \/ DefaultSave
    \/ Tick

SpecDefault == Init /\ [][DefaultNext]_vars

(***************************************************************************)
(* SpecPure: formatShortcutString and checkShortcutConflicts are called,   *)
(* and each call returns with its arguments as the call has left them.     *)
(***************************************************************************)
\* the default sites, and the default sites with the modifiers of github.dev
\* stored as ['shift', 'ctrl']
PureSites == {DEFAULT_SITES, [DEFAULT_SITES EXCEPT ![2].shortcuts = ChordNine]}

PureFormat ==
    \E key \in ChordKeys, modifiers \in ChordModifiers, enabled \in BOOLEAN :
        LET shortcut == Chord(key, modifiers, enabled)
        IN  Done([op |-> "formatShortcutString", shortcut |-> shortcut, kept |-> TRUE],
                 [error |-> "", store |-> store,
                  value |-> [returned |-> formatShortcutString(shortcut),
                             shortcut |-> formatShortcutStringArg(shortcut)]])

PureConflicts ==
    \E sites \in PureSites, excludeSiteId \in {GITHUB1S, GITHUB_DEV, UnknownId},
       shortcut \in {ChordOne, ChordNine, Chord("9", CTRL_SHIFT, TRUE)} :
        Done([op |-> "checkShortcutConflicts", sites |-> sites,
              excludeSiteId |-> excludeSiteId, shortcut |-> shortcut],
             [error |-> "", store |-> store,
              value |-> [returned |-> checkShortcutConflicts(sites, excludeSiteId, shortcut),
                         sites |-> checkShortcutConflictsArg(sites, excludeSiteId),
                         shortcut |-> formatShortcutStringArg(shortcut)]])

PureNext == PureFormat \/ PureConflicts

SpecPure == Init /\ [][PureNext]_vars

(***************************************************************************)
(* SpecValidate: shortcuts that validateShortcut accepts and shortcuts it  *)
(* refuses are assigned, directly and through the shortcut editor.         *)
(***************************************************************************)
ValidateChords ==
    {ChordNine, Chord("F1", <<"alt">>, FALSE),
     Chord("1", <<>>, TRUE), Chord("Enter", <<"ctrl">>, TRUE), Chord("9", <<"cmd">>, FALSE),
     Null}

ValidateAssign ==
    \E id \in {GITHUB_DEV, GITHUB1S}, shortcut \in ValidateChords :
        UpdateSiteShortcut(id, shortcut, NoFault)

ValidateEditorSave ==
    \E id \in {GITHUB_DEV, GITHUB1S}, tempShortcut \in ValidateChords :
        Done([op |-> "handleSave", id |-> id, shortcut |-> tempShortcut],
             handleSave(store, id, tempShortcut))

ValidateNext == ValidateAssign \/ ValidateEditorSave

SpecValidate == Init /\ [][ValidateNext]_vars

(***************************************************************************)
(* SpecOnly: sites are toggled and shortcuts assigned while another site   *)
(* holds a shortcut stored, through updateSite, with its modifiers in the  *)
(* order ['shift', 'ctrl'].                                                *)
(***************************************************************************)
OnlyPatch == UpdateSite(GITHUB1S, [shortcuts |-> ChordNine], NoFault)

OnlyAssign ==
    \E shortcut \in {ChordF1, Chord("2", CTRL_SHIFT, FALSE), Null} :
        UpdateSiteShortcut(GITHUB_DEV, shortcut, NoFault)

OnlyToggle ==
    \E id \in {GITHUB1S, GITHUB_DEV}, enabled \in BOOLEAN : ToggleSite(id, enabled, NoFault)

OnlySetting == \E value \in BOOLEAN : UpdateSetting("openInNewTab", value, NoFault)

OnlyNext == OnlyPatch \/ OnlyAssign \/ OnlyToggle \/ OnlySetting

SpecOnly == Init /\ [][OnlyNext]_vars

(***************************************************************************)
(* Vocabulary of the properties.                                           *)
(***************************************************************************)
SitesBefore == Loaded(before).sites

Count(s, x) == Cardinality({i \in 1..Len(s) : s[i] = x})

\* two chords have the same canonical string: the same key and the same
\* modifiers, whatever their order
SameChord(a, b) ==
    /\ a.key = b.key
    /\ Len(a.modifiers) = Len(b.modifiers)
    /\ \A m \in Range(a.modifiers) \cup Range(b.modifiers) :
          Count(a.modifiers, m) = Count(b.modifiers, m)

\* the sites of a list, other than id, whose active shortcut is the chord
Holders(sites, id, chord) ==
    {i \in 1..Len(sites) :
        /\ sites[i].id # id
        /\ Has(sites[i], "shortcuts")
        /\ Has(sites[i].shortcuts, "enabled")
        /\ sites[i].shortcuts.enabled
        /\ SameChord(sites[i].shortcuts, chord)}

Rejected == result.error # ""
Succeeded == result.error = ""

AssignsEnabledChord ==
    /\ call.op = "updateSiteShortcut"
    /\ call.shortcut # Null
    /\ call.shortcut.enabled

(***************************************************************************)
(* C1: updateSiteShortcut with an enabled chord is rejected whenever       *)
(* another site holds an enabled shortcut with the same canonical string,  *)
(* in whatever order the modifiers are given, and the rejected call leaves *)
(* the stored document, so every site's shortcut, as it was.               *)
(***************************************************************************)
C1_ConflictRejected ==
    (AssignsEnabledChord /\ Holders(SitesBefore, call.id, call.shortcut) # {})
        => Rejected /\ store = before

C1_Witness ==
    /\ AssignsEnabledChord
    /\ call.id = GITHUB_DEV
    /\ call.shortcut.modifiers = <<"shift", "ctrl">>
    /\ \E i \in Holders(SitesBefore, call.id, call.shortcut) :
          SitesBefore[i].shortcuts.modifiers = CTRL_SHIFT
    /\ result.error = "Shortcut conflict"
    /\ store = before

(***************************************************************************)
(* C3: updateSiteShortcut on an existing enabled site, with an enabled     *)
(* chord that no other site holds as an enabled shortcut, succeeds, and    *)
(* the shortcut mapping read right after maps the chord's canonical string *)
(* to that site.                                                           *)
(***************************************************************************)
C3_AssignedChordIsMapped ==
    (/\ AssignsEnabledChord
     /\ \E i \in 1..Len(SitesBefore) : SitesBefore[i].id = call.id /\ SitesBefore[i].enabled
     /\ Holders(SitesBefore, call.id, call.shortcut) = {})
        => /\ Succeeded
           /\ formatShortcutString(call.shortcut) \in DOMAIN getShortcutMapping(store, FALSE)
           /\ getShortcutMapping(store, FALSE)[formatShortcutString(call.shortcut)].id = call.id

C3_Witness ==
    /\ before = NoDocument
    /\ call.op = "updateSiteShortcut"
    /\ call.id = GITHUB_DEV
    /\ call.shortcut = Chord("9", CTRL_SHIFT, TRUE)
    /\ Succeeded
    /\ getShortcutMapping(store, FALSE)[<<"ctrl", "+", "shift", "+", "9">>].id = GITHUB_DEV

(***************************************************************************)
(* C2: after any sequence of site operations from the defaults, no two     *)
(* sites of the stored list hold enabled shortcuts with the same canonical *)
(* chord string.                                                           *)
(***************************************************************************)
C2_NoDuplicateActiveChord ==
    \A i \in 1..Len(StoredSites) :
        ShortcutEnabled(StoredSites[i])
            => \A j \in Holders(StoredSites, StoredSites[i].id, StoredSites[i].shortcuts) :
                  j = i

(***************************************************************************)
(* C4: deleteSite on a built-in site is rejected, toggleSite(id, false) on *)
(* it succeeds and disables it, and the five built-in ids are in the       *)
(* stored list in every reachable state.                                   *)
(***************************************************************************)
BuiltInIds == {GITHUB1S, GITHUB_DEV, <<"sourcegraph">>, <<"zread">>, <<"deepwiki">>}

TargetBefore == SitesBefore[FindIndex(SitesBefore, call.id)]

TargetsBuiltIn ==
    /\ \E i \in 1..Len(SitesBefore) : SitesBefore[i].id = call.id
    /\ TargetBefore.isBuiltIn

C4_BuiltInsStay ==
    /\ (call.op = "deleteSite" /\ TargetsBuiltIn) => Rejected /\ store = before
    /\ (call.op = "toggleSite" /\ ~call.enabled /\ TargetsBuiltIn)
          => /\ Succeeded
             /\ ~StoredSites[FindIndex(StoredSites, call.id)].enabled
    /\ BuiltInIds \subseteq IdsOf(StoredSites)

C4_Witness ==
    /\ call.op = "deleteSite"
    /\ call.id = GITHUB_DEV
    /\ result.error = "Built-in sites cannot be deleted, only disabled"
    /\ ~StoredSites[FindIndex(StoredSites, GITHUB_DEV)].enabled
    /\ CustomIds(store) = {}
    /\ CustomIds(before) = {}
    /\ Len(StoredSites) = 5

(***************************************************************************)
(* What the specification requires of the fields of a site.                *)
(***************************************************************************)
NonBlank(text) == \E i \in 1..Len(text) : text[i] \notin WhiteSpace

ContainsRepoPath(tpl) == "{REPO_PATH}" \in Range(tpl)

\* http(s):// followed by text that contains the {REPO_PATH} placeholder
RequiredPattern(tpl) ==
    /\ tpl # <<>>
    /\ tpl[1] \in {"http://", "https://"}
    /\ \E i \in 2..Len(tpl) : tpl[i] = "{REPO_PATH}"

AcceptableField(field, value) ==
    CASE field = "name" -> NonBlank(value)
      [] field = "urlTemplate" -> RequiredPattern(value)
      [] field = "category" -> value \in {"source", "ai"}
      [] field = "icon" -> value # <<>>
      [] OTHER -> TRUE

ValidatedFields == {"name", "urlTemplate", "category", "icon"}

(***************************************************************************)
(* C5: addSite is rejected for every input whose urlTemplate does not      *)
(* contain the token {REPO_PATH}, and then no site is added.               *)
(***************************************************************************)
C5_TemplateWithoutRepoPathRejected ==
    (call.op = "addSite" /\ ~ContainsRepoPath(call.input.urlTemplate))
        => Rejected /\ store = before

(***************************************************************************)
(* C6: addSite with acceptable fields, called below the custom-site        *)
(* maximum, succeeds: the stored list is the previous list followed by the *)
(* returned site, which is not built-in, has an id no site had and has the *)
(* largest previous order plus 1.                                          *)
(***************************************************************************)
C6_ValidInputAdded ==
    (/\ call.op = "addSite"
     /\ \A field \in ValidatedFields : AcceptableField(field, call.input[field])
     /\ CustomCount(before) < MAX_CUSTOM_SITES)
        => /\ Succeeded
           /\ StoredSites = Append(SitesBefore, result.value)
           /\ ~result.value.isBuiltIn
           /\ result.value.id \notin IdsOf(SitesBefore)
           /\ \E i \in 1..Len(SitesBefore) : result.value.order = SitesBefore[i].order + 1
           /\ \A i \in 1..Len(SitesBefore) : result.value.order > SitesBefore[i].order

(***************************************************************************)
(* C8: updateSite rejects, leaving the store as it was, a patch that sets  *)
(* name, urlTemplate, category or icon to a value addSite would reject     *)
(* (the empty name included); a patch on an existing site whose validated  *)
(* fields are all acceptable is merged onto the stored record.             *)
(***************************************************************************)
PatchUnacceptable ==
    \E field \in ValidatedFields \cap DOMAIN call.updates :
        ~AcceptableField(field, call.updates[field])

C8_PatchValidated ==
    (call.op = "updateSite" /\ call.id \in IdsOf(SitesBefore))
        => IF PatchUnacceptable
           THEN Rejected /\ store = before
           ELSE /\ Succeeded
                /\ StoredSites[FindIndex(SitesBefore, call.id)]
                      = Merge(TargetBefore, call.updates)

(***************************************************************************)
(* C7: addSite is rejected when the number of stored sites that are not    *)
(* built-in equals MAX_CUSTOM_SITES, so that number never exceeds the      *)
(* maximum.                                                                *)
(***************************************************************************)
NotBuiltIn(sites) == {i \in 1..Len(sites) : ~sites[i].isBuiltIn}

C7_CustomLimit ==
    /\ (call.op = "addSite" /\ Cardinality(NotBuiltIn(SitesBefore)) = MAX_CUSTOM_SITES)
          => Rejected /\ store = before
    /\ Cardinality(NotBuiltIn(StoredSites)) <= MAX_CUSTOM_SITES

C7_Witness ==
    /\ call.op = "addSite"
    /\ Cardinality(NotBuiltIn(SitesBefore)) = MAX_CUSTOM_SITES
    /\ result.error = "Maximum custom sites allowed"
    /\ Cardinality(NotBuiltIn(StoredSites)) = MAX_CUSTOM_SITES

(***************************************************************************)
(* C9: reorderSites(ids) with known ids persists and returns the listed    *)
(* sites in the given sequence with order 1..N, followed by every site not *)
(* mentioned, in its previous relative position, with order N+1, N+2, ...  *)
(***************************************************************************)
Unmentioned(sites, ids) == SelectSeq(sites, LAMBDA site : site.id \notin Range(ids))

C9_Reordered ==
    (call.op = "reorderSites" /\ Range(call.siteIds) \subseteq IdsOf(SitesBefore))
        => LET ids == call.siteIds
               out == result.value
               rest == Unmentioned(SitesBefore, ids)
           IN  /\ Succeeded
               /\ StoredSites = out
               /\ Len(out) = Len(ids) + Len(rest)
               /\ \A i \in 1..Len(ids) :
                     \E j \in 1..Len(SitesBefore) :
                         /\ SitesBefore[j].id = ids[i]
                         /\ out[i] = [SitesBefore[j] EXCEPT !.order = i]
               /\ \A k \in 1..Len(rest) :
                     out[Len(ids) + k] = [rest[k] EXCEPT !.order = Len(ids) + k]

C9_Witness ==
    /\ call.op = "reorderSites"
    /\ call.siteIds = <<GITHUB_DEV, GITHUB1S>>
    /\ before = NoDocument
    /\ Succeeded
    /\ [i \in 1..Len(StoredSites) |-> <<StoredSites[i].id, StoredSites[i].order>>]
          = << <<GITHUB_DEV, 1>>, <<GITHUB1S, 2>>, <<<<"sourcegraph">>, 3>>,
               <<<<"zread">>, 4>>, <<DEEPWIKI, 5>> >>

(***************************************************************************)
(* C10: when addSite, updateSite, deleteSite, reorderSites,                *)
(* updateSiteShortcut, saveConfig or importConfig ends with an error, the  *)
(* stored document is exactly the one that was there before the call.      *)
(***************************************************************************)
C10_ErrorLeavesStore ==
    (/\ call.op \in {"addSite", "updateSite", "deleteSite", "reorderSites",
                     "updateSiteShortcut", "saveConfig", "importConfig"}
     /\ Rejected)
        => store = before

C10_Witness ==
    /\ call.op = "importConfig"
    /\ call.configJson.parses
    /\ isValidConfig(call.configJson.value)
    /\ call.faults.w
    /\ Rejected
    /\ before # NoDocument
    /\ CustomIds(before) # {}
    /\ store = before

(***************************************************************************)
(* C11 as stated: generateSiteUrl(site, "owner/repo") is the site's        *)
(* urlTemplate with {REPO_PATH} replaced by "owner/repo", and no           *)
(* {REPO_PATH} token remains in the result.                                *)
(***************************************************************************)
Placeholders(tpl) == {i \in 1..Len(tpl) : tpl[i] = "{REPO_PATH}"}

Substituted(tpl, repoPath) ==
    [i \in 1..Len(tpl) |-> IF i \in Placeholders(tpl) THEN repoPath ELSE tpl[i]]

C11_NoPlaceholderRemains ==
    call.op = "generateSiteUrl"
        => /\ result.value = Substituted(call.site.urlTemplate, call.repoPath)
           /\ Placeholders(result.value) = {}

(***************************************************************************)
(* C11, amended: generateSiteUrl(site, "owner/repo") is the site's         *)
(* urlTemplate with its first {REPO_PATH} token replaced by "owner/repo"   *)
(* and everything else kept; no {REPO_PATH} token remains in the result    *)
(* exactly when the template holds at most one.                            *)
(***************************************************************************)
C11_FirstPlaceholderReplaced ==
    call.op = "generateSiteUrl"
        => LET tpl == call.site.urlTemplate
               url == result.value
               at == Placeholders(tpl)
           IN  /\ Succeeded
               /\ store = before
               /\ Len(url) = Len(tpl)
               /\ \A i \in 1..Len(tpl) :
                     url[i] = IF i \in at /\ \A j \in at : i <= j
                              THEN call.repoPath ELSE tpl[i]
               /\ (Placeholders(url) = {}) <=> (Cardinality(at) <= 1)

C11_Witness ==
    /\ call.op = "generateSiteUrl"
    /\ call.site.urlTemplate = TplTwice
    /\ call.repoPath = "owner/repo"
    /\ result.value
          = <<"https://", "h/", "owner/repo", "/", "{REPO_PATH}", "?", "{repoPath}">>

(***************************************************************************)
(* C12: for every chord C that passes validateShortcut,                    *)
(* parseShortcutString(formatShortcutString(C)) is a chord with the key of *)
(* C and the same set of modifiers as C.                                   *)
(***************************************************************************)
ParsedFormatted == call.op = "parseShortcutString" /\ Has(call, "formatted")

C12_ParseInvertsFormat ==
    (ParsedFormatted /\ validateShortcut(call.formatted))
        => /\ result.value # Null
           /\ result.value.key = call.formatted.key
           /\ Range(result.value.modifiers) = Range(call.formatted.modifiers)

C12_Witness ==
    /\ ParsedFormatted
    /\ call.formatted = Chord("F12", <<"meta", "shift", "alt", "ctrl">>, FALSE)
    /\ call.shortcutStr
          = <<"alt", "+", "ctrl", "+", "meta", "+", "shift", "+", "F12">>
    /\ result.value = Chord("F12", <<"alt", "ctrl", "meta", "shift">>, TRUE)

(***************************************************************************)
(* C13 as stated: getSuggestedShortcut(excludeId) returns ctrl+shift+digit *)
(* for the first digit of its scan order whose canonical string is not in  *)
(* use by any other enabled site, none only when all ten are in use, and   *)
(* on a fresh default configuration key "6" with modifiers [ctrl, shift].  *)
(***************************************************************************)
\* the positions in the scan order of the digits that sites of the given
\* set, other than id, hold as an enabled ctrl+shift chord
DigitsHeld(among, id) ==
    {n \in 1..Len(SuggestedKeys) :
        Holders(SitesBefore, id, Chord(SuggestedKeys[n], CTRL_SHIFT, TRUE)) \cap among # {}}

FirstFree(held) ==
    CHOOSE n \in 1..Len(SuggestedKeys) : n \notin held /\ \A m \in 1..(n - 1) : m \in held

Suggests(held) ==
    IF held = 1..Len(SuggestedKeys) THEN result.value = Null
    ELSE /\ result.value # Null
         /\ result.value.key = SuggestedKeys[FirstFree(held)]
         /\ result.value.modifiers = CTRL_SHIFT

EnabledSitesBefore == {i \in 1..Len(SitesBefore) : SitesBefore[i].enabled}

C13_SuggestsFreeOfEnabledSites ==
    call.op = "getSuggestedShortcut"
        => /\ Suggests(DigitsHeld(EnabledSitesBefore, call.id))
           /\ Loaded(before) = DEFAULT_CONFIG
                 => result.value = Chord("6", CTRL_SHIFT, TRUE)

(***************************************************************************)
(* C13, amended: getSuggestedShortcut(excludeId) returns ctrl+shift+digit  *)
(* for the first digit, in the order 1..9 then 0, whose canonical string   *)
(* is not the enabled shortcut of any other site, whether that site is     *)
(* enabled or not, and none only when all ten are held; on a fresh default *)
(* configuration, for an id that is not a built-in site's, it returns key  *)
(* "6" with modifiers [ctrl, shift]. Nothing is stored.                    *)
(***************************************************************************)
C13_SuggestsFreeOfAllSites ==
    call.op = "getSuggestedShortcut"
        => /\ Suggests(DigitsHeld(1..Len(SitesBefore), call.id))
           /\ (Loaded(before) = DEFAULT_CONFIG /\ call.id \notin BuiltInIds)
                 => result.value = Chord("6", CTRL_SHIFT, TRUE)
           /\ store = before

C13_Witness ==
    /\ call.op = "getSuggestedShortcut"
    /\ call.id = NewId
    /\ Len(SitesBefore) = 10
    /\ ~SitesBefore[1].enabled
    /\ DigitsHeld(EnabledSitesBefore, NewId) = 2..10
    /\ result.value = Null

(***************************************************************************)
(* C14: getShortcutMapping() has an entry exactly for the canonical        *)
(* strings of the enabled shortcuts of enabled sites; a site that is       *)
(* disabled, or whose shortcut is absent or disabled, is never a value;    *)
(* when two enabled sites share a canonical string the value is the one    *)
(* that comes later when the sites are taken in ascending order.           *)
(***************************************************************************)
\* the sites that are enabled and hold an enabled shortcut
ActiveBefore ==
    {i \in 1..Len(SitesBefore) :
        /\ SitesBefore[i].enabled
        /\ Has(SitesBefore[i], "shortcuts")
        /\ Has(SitesBefore[i].shortcuts, "enabled")
        /\ SitesBefore[i].shortcuts.enabled}

\* site j comes after site i in ascending order (stored position breaks ties)
ComesAfter(j, i) ==
    \/ SitesBefore[j].order > SitesBefore[i].order
    \/ SitesBefore[j].order = SitesBefore[i].order /\ j > i

C14_MappingOfActiveShortcuts ==
    call.op = "getShortcutMapping"
        => LET mapping == result.value
               canonical(i) == formatShortcutString(SitesBefore[i].shortcuts)
           IN  /\ Succeeded
               /\ DOMAIN mapping = {canonical(i) : i \in ActiveBefore}
               /\ \A k \in DOMAIN mapping :
                     \E i \in ActiveBefore :
                         /\ canonical(i) = k
                         /\ mapping[k].id = SitesBefore[i].id
                         /\ mapping[k].enabled /\ mapping[k].shortcuts.enabled
                         /\ SameChord(mapping[k].shortcuts, SitesBefore[i].shortcuts)
                         /\ \A j \in ActiveBefore : canonical(j) = k => ~ComesAfter(j, i)
               /\ store = before

C14_Witness ==
    /\ call.op = "getShortcutMapping"
    /\ SitesBefore[1].id = GITHUB1S /\ SitesBefore[1].order = 9 /\ SitesBefore[1].enabled
    /\ SitesBefore[2].id = GITHUB_DEV /\ SitesBefore[2].enabled
    /\ {1, 2} \subseteq Holders(SitesBefore, NewId, ChordNine)
    /\ ~SitesBefore[3].enabled
    /\ DOMAIN result.value = {<<"ctrl", "+", "shift", "+", "9">>,
                               <<"ctrl", "+", "shift", "+", "4">>,
                               <<"ctrl", "+", "shift", "+", "5">>}
    /\ result.value[<<"ctrl", "+", "shift", "+", "9">>].id = GITHUB1S

(***************************************************************************)
(* C15: after resetToDefault(), whatever was stored before, the stored     *)
(* document loads as the default configuration (the five built-in sites    *)
(* with their default fields, the default settings, the current version),  *)
(* and so does a load that follows the reset.                              *)
(***************************************************************************)
C15_ResetRestoresDefaults ==
    /\ call.op = "resetToDefault"
          => /\ Succeeded
             /\ result.value = DEFAULT_CONFIG
             /\ Loaded(store) = DEFAULT_CONFIG
    /\ (call.op = "getConfig" /\ call.after = "resetToDefault")
          => result.value = DEFAULT_CONFIG

C15_Witness ==
    /\ call.op = "resetToDefault"
    /\ CustomIds(before) # {}
    /\ \E i \in 1..Len(SitesBefore) : SitesBefore[i].isBuiltIn /\ ~SitesBefore[i].enabled
    /\ Loaded(before).settings.showOnHover
    /\ store = DEFAULT_CONFIG

(***************************************************************************)
(* C16: a load (getConfig) never ends with an error, also when the read of *)
(* the store fails. When the store holds no document, or one that is not   *)
(* an object with a sites array and a settings object, it returns the      *)
(* default configuration; when the document read is shape-valid it returns *)
(* that document: as it is when it has the current version, with its sites *)
(* in the same sequence, its settings and the current version otherwise.   *)
(* A load stores nothing.                                                  *)
(***************************************************************************)
ShapeValid(doc) == Has(doc, "sites") /\ Has(doc, "settings")

HasCurrentVersion(doc) == Has(doc, "version") /\ doc.version = DEFAULT_VERSION

LoadedFrom(doc) == call.op = "getConfig" /\ ~call.faults.r1 /\ before = doc

Backfilled(a, b) ==
    /\ DOMAIN b = DOMAIN a
    /\ \A field \in DOMAIN a \ {"shortcuts"} : b[field] = a[field]
    /\ Has(a, "shortcuts")
          => /\ DOMAIN b.shortcuts = DOMAIN a.shortcuts \cup {"enabled"}
             /\ \A field \in DOMAIN a.shortcuts : b.shortcuts[field] = a.shortcuts[field]
             /\ ~Has(a.shortcuts, "enabled") => b.shortcuts.enabled = TRUE

C18_SaveValidatesAndStamps ==
    call.op = "saveConfig"
        => IF ~ShapeValid(call.config)
           THEN Rejected /\ store = before
           ELSE /\ Succeeded
                /\ DOMAIN store = DOMAIN call.config \cup {"version"}
                /\ store.version = DEFAULT_VERSION
                /\ \A field \in DOMAIN call.config \ {"version"} :
                      store[field] = call.config[field]

C18_Witness ==
    /\ call.op = "saveConfig"
    /\ call.config = DocOld
    /\ CustomIds(before) # {}
    /\ store = [DocOld EXCEPT !.version = DEFAULT_VERSION]

(***************************************************************************)
(* C19: importConfig(text) with a text that parses to a shape-valid        *)
(* document stores and returns a configuration whose sites are exactly the *)
(* imported sites (also when there are none, or no built-in ones), whose   *)
(* settings are the default settings overridden by every imported settings *)
(* field, and whose version is the current one; a text that does not parse *)
(* or is not shape-valid raises an error and nothing is stored.            *)
(***************************************************************************)
Importable(text) == text.parses /\ ShapeValid(text.value)

Overridden(defaults, given) ==
    [field \in DOMAIN defaults \cup DOMAIN given |->
        IF field \in DOMAIN given THEN given[field] ELSE defaults[field]]

C19_ImportMergesOntoDefaults ==
    call.op = "importConfig"
        => IF Importable(call.configJson)
           THEN /\ Succeeded
                /\ DOMAIN result.value = {"sites", "settings", "version"}
                /\ result.value.sites = call.configJson.value.sites
                /\ result.value.settings
                      = Overridden(DEFAULT_SETTINGS, call.configJson.value.settings)
                /\ result.value.version = DEFAULT_VERSION
                /\ store = result.value
           ELSE Rejected /\ store = before

C19_Witness ==
    /\ call.op = "importConfig"
    /\ call.configJson = Text([sites |-> <<>>, settings |-> [showOnHover |-> TRUE]])
    /\ Len(SitesBefore) > 5
    /\ store = [sites |-> <<>>,
                settings |-> [DEFAULT_SETTINGS EXCEPT !.showOnHover = TRUE],
                version |-> DEFAULT_VERSION]

(***************************************************************************)
(* C20 as stated: for every stored configuration, with no mutation in      *)
(* between, importConfig(exportConfig()) returns and stores a              *)
(* configuration whose sites, settings and version equal those of the      *)
(* configuration a load returned before the export.                        *)
(***************************************************************************)
ImportedExport == call.op = "importConfig" /\ Has(call, "exported")

SameConfiguration(a, b) ==
    /\ a.sites = b.sites
    /\ a.settings = b.settings
    /\ a.version = b.version

C20_RoundTripEqual ==
    ImportedExport
        => /\ Succeeded
           /\ SameConfiguration(result.value, Loaded(before))
           /\ SameConfiguration(Loaded(store), Loaded(before))

(***************************************************************************)
(* C20, amended: with no mutation in between, importConfig(exportConfig()) *)
(* returns and stores a configuration with the sites and the version that  *)
(* a load returned before the export, and with the settings it returned    *)
(* completed by the default value of every settings field they lack: the   *)
(* configuration is equal field for field exactly when the stored settings *)
(* hold every field of the default settings.                               *)
(***************************************************************************)
C20_RoundTripCompletesSettings ==
    ImportedExport
        => LET loaded == Loaded(before)
           IN  /\ Succeeded
               /\ Has(call.configJson.value, "exportDate")
               /\ result.value.sites = loaded.sites
               /\ result.value.version = loaded.version
               /\ result.value.settings = Overridden(DEFAULT_SETTINGS, loaded.settings)
               /\ SameConfiguration(Loaded(store), result.value)
               /\ SameConfiguration(result.value, loaded)
                     <=> DOMAIN DEFAULT_SETTINGS \subseteq DOMAIN loaded.settings

C20_Witness ==
    /\ ImportedExport
    /\ before = DocOld
    /\ result.value = [DocOld EXCEPT !.sites = Loaded(DocOld).sites,
                                      !.version = DEFAULT_VERSION]
    /\ store = result.value
(***************************************************************************)
(* C21: when two toggleSite calls on different sites overlap so that the   *)
(* later writer made both its reads before the earlier one wrote, both     *)
(* calls succeed and the stored document is the one the later call wrote:  *)
(* the document that call read with its own change only, so the site the   *)
(* earlier writer toggled is stored as it was before that toggle.          *)
(***************************************************************************)
\* page p wrote last, after the call of another page had written while p
\* had both reads, of one and the same document, behind it and no write yet
WroteLastOverlapping(p) ==
    /\ pages[p].latest
    /\ pages[p].overtook # Null
    /\ pages[p].seen = pages[p].config

SiteOf(config, id) == config.sites[FindIndex(config.sites, id)]

\* the document d with site id toggled and nothing else touched
Toggled(d, id, enabled) ==
    [d EXCEPT !.sites = [i \in DOMAIN d.sites |->
        IF d.sites[i].id = id THEN Merge(d.sites[i], [enabled |-> enabled])
        ELSE d.sites[i]]]

C21_LaterWriteWins ==
    \A p \in Pages :
        WroteLastOverlapping(p)
            => /\ pages[p].error = ""
               /\ pages[p].overtook.error = ""
               /\ store = Merge(Merge(pages[p].config, pages[p].patch),
                                [version |-> DEFAULT_VERSION])
               /\ store = Toggled(pages[p].config, pages[p].call.id, pages[p].call.enabled)
               /\ SiteOf(store, pages[p].overtook.call.id)
                     = SiteOf(pages[p].config, pages[p].overtook.call.id)

\* page 1 disabled github1s while page 2, about to disable github_dev, had read
\* the defaults; page 2 wrote last and github1s is stored enabled again
C21_Witness ==
    /\ WroteLastOverlapping(2)
    /\ pages[2].overtook.call = ToggleCall(GITHUB1S, FALSE)
    /\ pages[2].config = DEFAULT_CONFIG
    /\ SiteOf(store, GITHUB1S).enabled
    /\ ~SiteOf(store, GITHUB_DEV).enabled
    /\ pages[1].pc = "idle"

(***************************************************************************)
(* C22: every mutating manager call reads the stored document at most once *)
(* and writes it at most once, the read before the write.                  *)
(***************************************************************************)
C22_OneReadOneWrite ==
    \A p \in Pages :
        /\ pages[p].reads <= 1
        /\ pages[p].writes <= 1
        /\ pages[p].writes = 1 => pages[p].pc = "done"

(***************************************************************************)
(* C23: a manager call during which the store fails on a read or on a      *)
(* write ends with an error; it does not succeed with a substitute result. *)
(***************************************************************************)
\* the first read of a site call fails: every such call starts with it
FirstReadFails ==
    /\ call.op \in {"addSite", "updateSite", "deleteSite", "reorderSites",
                    "updateSiteShortcut"}
    /\ call.faults.r1

C23_StoreFailureIsAnError == FirstReadFails => Rejected

(***************************************************************************)
(* C24: while shortcuts are enabled, a key-down navigates exactly when its *)
(* target is no input, textarea or content-editable element, a modifier is *)
(* held and the canonical string of the held modifiers and the key (lower  *)
(* case, F1..F12 upper case) is a key of the shortcut mapping read then;   *)
(* it navigates to generateSiteUrl of the mapped site for the repository;  *)
(* otherwise nothing is opened and the default handling is not suppressed. *)
(***************************************************************************)
FunctionKeys == {"F1", "F2", "F3", "F4", "F5", "F6", "F7", "F8", "F9", "F10", "F11", "F12"}

HeldModifiers(event) ==
    {m \in MODIFIER_KEYS :
        \/ m = "ctrl" /\ event.ctrlKey
        \/ m = "alt" /\ event.altKey
        \/ m = "shift" /\ event.shiftKey
        \/ m = "meta" /\ event.metaKey}

\* the modifiers of a set, one after the other in canonical (sorted) order
RECURSIVE InOrder(_)
InOrder(ms) ==
    IF ms = {} THEN <<>>
    ELSE LET m == CHOOSE x \in ms : \A y \in ms : Rank(x) <= Rank(y)
         IN  <<m>> \o InOrder(ms \ {m})

CanonicalKey(event) ==
    IF Spell(toUpperCase(event.key)) \in FunctionKeys
    THEN Spell(toUpperCase(event.key))
    ELSE Spell(toLowerCase(event.key))

CanonicalString(event) == Join(InOrder(HeldModifiers(event)) \o <<CanonicalKey(event)>>)

TextInputLike(target) ==
    target.tagName \in {"INPUT", "TEXTAREA"} \/ target.isContentEditable

MappingBefore == getShortcutMapping(before, FALSE)

KeyDownWhileEnabled == call.op = "keydown" /\ call.settings.enableShortcuts

Navigates == result.value.opened # Null

C24_KeyDownNavigates ==
    KeyDownWhileEnabled
        => /\ Navigates
                <=> /\ ~TextInputLike(call.event.target)
                    /\ HeldModifiers(call.event) # {}
                    /\ CanonicalString(call.event) \in DOMAIN MappingBefore
           /\ Navigates
                => result.value.opened
                     = generateSiteUrl(MappingBefore[CanonicalString(call.event)],
                                       call.repoPath)
           /\ ~Navigates => ~result.value.prevented
           /\ store = before

\* ctrl+F1 pressed on the page body after github_dev was given ctrl+F1
C24_Witness ==
    /\ KeyDownWhileEnabled
    /\ call.event.key = <<"F", "1">>
    /\ HeldModifiers(call.event) = {"ctrl"}
    /\ ~TextInputLike(call.event.target)
    /\ Navigates
    /\ result.value.opened = generateSiteUrl(SiteOf(Loaded(store), GITHUB_DEV), REPO_PATH)
    /\ result.value.opened # SiteOf(Loaded(store), GITHUB_DEV).urlTemplate

(***************************************************************************)
(* C25: in every state reached from the defaults by the manager            *)
(* operations, settings.defaultSiteId is the id of a stored site.          *)
(***************************************************************************)
C25_DefaultSiteStored == Loaded(store).settings.defaultSiteId \in IdsOf(StoredSites)

(***************************************************************************)
(* C26: checkShortcutConflicts and formatShortcutString do not modify      *)
(* their arguments: the candidate chord, and every site passed in, has the *)
(* same modifiers list after the call as before it.                        *)
(***************************************************************************)
C26_ArgumentsUnchanged ==
    /\ (call.op = "formatShortcutString" /\ Has(call, "kept"))
          => result.value.shortcut = call.shortcut
    /\ call.op = "checkShortcutConflicts"
          => /\ result.value.shortcut = call.shortcut
             /\ result.value.sites = call.sites

(***************************************************************************)
(* C27: the shortcut a successful updateSiteShortcut call stores satisfies *)
(* validateShortcut, and a call with a chord that fails validateShortcut   *)
(* is rejected.                                                            *)
(***************************************************************************)
AssignsChord == call.op = "updateSiteShortcut" /\ call.shortcut # Null

C27_StoredShortcutsValid ==
    AssignsChord
        => /\ Succeeded => validateShortcut(SiteOf(Loaded(store), call.id).shortcuts)
           /\ ~validateShortcut(call.shortcut) => Rejected

(***************************************************************************)
(* C28: in every state reached from the defaults by the site operations,   *)
(* reorderSites called with any list of known ids, the ids of the stored   *)
(* sites are pairwise distinct, and reorderSites changes neither which     *)
(* sites are stored nor how many.                                          *)
(***************************************************************************)
IdsDistinct(sites) ==
    \A i, j \in 1..Len(sites) : i # j => sites[i].id # sites[j].id

C28_IdsDistinctReorderKeepsSites ==
    /\ IdsDistinct(StoredSites)
    /\ (call.op = "reorderSites" /\ Succeeded)
          => /\ IdsOf(StoredSites) = IdsOf(SitesBefore)
             /\ Len(StoredSites) = Len(SitesBefore)

(***************************************************************************)
(* C29: a successful toggleSite(id, enabled) changes the stored document   *)
(* only in the enabled field of site id, and a successful                  *)
(* updateSiteShortcut(id, chord) only in the shortcuts field of site id:   *)
(* the other fields of that site, every other site (the modifiers of its   *)
(* shortcut included), the order of the list and the settings stay.        *)
(***************************************************************************)
\* documents a and b differ at most in the given field of site id
SameButField(a, b, id, field) ==
    /\ a.settings = b.settings
    /\ Len(a.sites) = Len(b.sites)
    /\ \A i \in 1..Len(a.sites) :
          IF a.sites[i].id = id
          THEN Without(a.sites[i], field) = Without(b.sites[i], field)
          ELSE a.sites[i] = b.sites[i]

ToggleChangesOnlyEnabled ==
    (call.op = "toggleSite" /\ Succeeded)
        => /\ SameButField(Loaded(before), Loaded(store), call.id, "enabled")
           /\ SiteOf(Loaded(store), call.id).enabled = call.enabled

AssignChangesOnlyShortcuts ==
    (call.op = "updateSiteShortcut" /\ Succeeded)
        => SameButField(Loaded(before), Loaded(store), call.id, "shortcuts")

C29_OnlyTheFieldChanges == ToggleChangesOnlyEnabled /\ AssignChangesOnlyShortcuts

(***************************************************************************)
(* C30: a mutating manager call made while a read of the store fails never *)
(* replaces the stored document by data derived from the defaults: the     *)
(* stored document is afterwards either unchanged or its previous content  *)
(* with only the requested change applied.                                 *)
(***************************************************************************)
MutatesWhileReadFails ==
    /\ call.op \in {"addSite", "updateSite", "deleteSite", "reorderSites",
                    "updateSiteShortcut"}
    /\ call.faults.r1 \/ call.faults.r2

\* what the call stores when no access to the store fails
RequestedChange == Perform(before, [call EXCEPT !.faults = NoFault], now).store

C30_ReadFailureKeepsDocument ==
    MutatesWhileReadFails => store = before \/ store = RequestedChange

====
